---- MODULE Spec2Model ----
(***************************************************************************)
(* A model of music21/demos/theoryAnalyzer.py: the TheoryAnalyzer's        *)
(* vertical slices, derived views and their caches, the seven              *)
(* _identifyBasedOn* evaluators and the result dictionary; of              *)
(* music21/romanText/translate.py: romanTextToStreamScore, one token a     *)
(* step; and of music21/scale.py: the major and minor scales and their     *)
(* relative and parallel scales.                                           *)
(*                                                                         *)
(* Python values are written as sequences, so that any two of them can be  *)
(* compared: None is <<>>, a note is <<part, index of the event>>, a bool, *)
(* int or str is <<"bool", ..>>, <<"int", ..>>, <<"str", ..>>.             *)
(***************************************************************************)
EXTENDS Integers, Sequences, FiniteSets, TLC

VARIABLES
    mode,                   \* which calls and arguments a specification draws
    theoryScore,            \* self._theoryScore: the parts, each its Note/Rest events
    pc,                     \* "new", "ready" (constructed) or "raised" (__init__ raised)
    verticalSlices,         \* self.verticalSlices
    verticalSliceTriplets,  \* self.verticalSliceTriplets
    vlqCache,               \* self._vlqCache: key -> list object
    tnlsCache,              \* self._tnlsCache: key -> list object
    resultDict,             \* self.resultDict: dictKey -> list of results
    colors,                 \* the color attribute of every Note of the score
    nextId,                 \* identity of the next list object created
    firstRet,               \* history: accessor and arguments -> the list first returned
    calls,                  \* number of calls made on the analyzer
    last,                   \* history: the last call, its arguments and its outcome
    rtPc,                   \* romanTextToStreamScore: "loop", "raised" or "returned"
    md,                     \* md: the metadata of the score
    measures,               \* p: the measures appended to the part
    chordHeap,              \* the chord objects created, by identity
    tsCurrent,              \* tsCurrent
    tsSet,                  \* tsSet
    lastMeasureNumber,      \* lastMeasureNumber
    previousChord,          \* previousChord: None or <<identity>>
    kCurrent,               \* kCurrent: unbound until a key atom is read
    copyOf,                 \* history: the chord each chord was copied from, or 0
    rtLast,                 \* history: the last token and the builder before it
    tonicArg,               \* the tonic a scale is to be made of
    scaleTrail              \* the scales made, each with the operation that made it

taVars == <<mode, theoryScore, pc, verticalSlices, verticalSliceTriplets, vlqCache,
            tnlsCache, resultDict, colors, nextId, firstRet, calls, last>>

rtVars == <<rtPc, md, measures, chordHeap, tsCurrent, tsSet, lastMeasureNumber,
            previousChord, kCurrent, copyOf, rtLast>>

scVars == <<tonicArg, scaleTrail>>

vars == <<taVars, rtVars, scVars>>

\* ---------------------------------------------------------------- bounds
MaxParts == 3
MaxTime == 4
MaxCalls == 2
MaxLength == 3
MaxTokens == 3
MaxMeasureNumber == 4
MaxScales == 4

\* ---------------------------------------------------------------- Python values
None == <<>>
PyFalse == <<"bool", "False">>
PyTrue == <<"bool", "True">>
PyEmptyStr == <<"str">>

Digit(n) ==
    CASE n = 0 -> "0" [] n = 1 -> "1" [] n = 2 -> "2" [] n = 3 -> "3" [] n = 4 -> "4"
      [] n = 5 -> "5" [] n = 6 -> "6" [] n = 7 -> "7" [] n = 8 -> "8" [] n = 9 -> "9"

RECURSIVE Digits(_)
Digits(n) == IF n < 10 THEN <<Digit(n)>> ELSE Digits(n \div 10) \o <<Digit(n % 10)>>

\* str(n) of a Python int, as the sequence of its characters
Str(n) == IF n < 0 THEN <<"-">> \o Digits(0 - n) ELSE Digits(n)

PyInt(n) == <<"int">> \o Str(n)

\* bool(v): what a plain "if v:" would test
Truthy(v) == v \notin {None, PyFalse, PyInt(0), PyEmptyStr}

Min(a, b) == IF a < b THEN a ELSE b
Max(a, b) == IF a > b THEN a ELSE b

\* a slice that would take a negative start for the start of the list
PySliceFromZero(seq, start, end) ==
    LET n == Len(seq)
        lo == IF start < 0 THEN 0 ELSE Min(start, n)
        hi == IF end = None THEN n
              ELSE IF end[1] < 0 THEN Max(n + end[1], 0) ELSE Min(end[1], n)
    IN  [lo |-> lo, items |-> IF hi > lo THEN SubSeq(seq, lo + 1, hi) ELSE <<>>]

\* seq[start:end] of Python; end = None is written <<>>, an index i is <<i>>
PySlice(seq, start, end) ==
    LET n == Len(seq)
        lo == IF start < 0 THEN Max(n + start, 0) ELSE Min(start, n)
        hi == IF end = None THEN n
              ELSE IF end[1] < 0 THEN Max(n + end[1], 0) ELSE Min(end[1], n)
    IN  [lo |-> lo, items |-> IF hi > lo THEN SubSeq(seq, lo + 1, hi) ELSE <<>>]

\* ---------------------------------------------------------------- scores
Shapes == {"full", "long", "even", "restLast", "late", "empty"}
SoundShapes == {"full", "long", "restLast"}
\* the shapes of the scores the built-in rules are run on
RuleShapes == {"full", "fifth", "leap", "restLast"}

\* what a part of the given shape holds at time t: a Note, a Rest or nothing
Slot(shape, t) ==
    CASE shape = "full" -> "Note"
      [] shape = "long" -> IF t = 0 THEN "Note" ELSE "-"
      [] shape = "even" -> IF t % 2 = 0 THEN "Note" ELSE "-"
      [] shape = "restLast" -> IF t = MaxTime - 1 THEN "Rest" ELSE "Note"
      [] shape = "late" -> IF t = 0 THEN "-" ELSE "Note"
      [] shape = "empty" -> "-"
      [] shape \in {"fifth", "leap"} -> "Note"

BasePitch(shape) ==
    CASE shape = "full" -> 1 [] shape = "long" -> 5 [] shape = "even" -> 3
      [] shape = "restLast" -> 2 [] shape = "late" -> 4 [] shape = "empty" -> 0
      [] shape = "fifth" -> 8 [] shape = "leap" -> 2

\* the semitones a part of the shape moves by from one time to the next
PitchStep(shape) == IF shape = "leap" THEN 6 ELSE 1

RECURSIVE EventsFrom(_, _)
EventsFrom(shape, t) ==
    IF t >= MaxTime THEN <<>>
    ELSE (IF Slot(shape, t) = "-" THEN <<>>
          ELSE <<[offset |-> t, cls |-> Slot(shape, t), pitch |-> BasePitch(shape) + PitchStep(shape) * t]>>)
         \o EventsFrom(shape, t + 1)

\* a Part: its flat Note/Rest events in offset order
PartOf(shape) == EventsFrom(shape, 0)

SeqsUpTo(S, n) == UNION {[1..k -> S] : k \in 0..n}

WideScores == {[i \in DOMAIN s |-> PartOf(s[i])] : s \in SeqsUpTo(Shapes, MaxParts)}
SeqScores == {[i \in DOMAIN s |-> PartOf(s[i])] : s \in SeqsUpTo(SoundShapes, 2)}
RuleScores == {[i \in DOMAIN s |-> PartOf(s[i])] : s \in SeqsUpTo(RuleShapes, 3)}

NumParts == Len(theoryScore)
PartNums == 0..(NumParts - 1)
Part(p) == theoryScore[p + 1]
NoteRefs == {<<p, i>> : p \in PartNums, i \in 1..MaxTime}
AllNotes == {r \in NoteRefs : r[2] <= Len(Part(r[1])) /\ Part(r[1])[r[2]].cls = "Note"}

\* ---------------------------------------------------------------- collaborators
\* Stream.chordify(): one Chord per distinct onset of the parts, in time order
RECURSIVE Ascending(_)
Ascending(S) ==
    IF S = {} THEN <<>>
    ELSE LET m == CHOOSE x \in S : \A y \in S : x <= y
         IN  <<m>> \o Ascending(S \ {m})

Chordify ==
    Ascending(UNION {{Part(p)[i].offset : i \in 1..Len(Part(p))} : p \in PartNums})

\* Stream.getElementAtOrBefore(offset): the index of the part's last event that
\* starts at or before the offset; 0 stands for the None it returns without one
GetElementAtOrBefore(p, t) ==
    LET at == {i \in 1..Len(Part(p)) : Part(p)[i].offset <= t}
    IN  IF at = {} THEN 0 ELSE CHOOSE i \in at : \A j \in at : j <= i

\* VerticalSlice.getNote(partNum): contentDict[partNum]
GetNote(vs, partNum) == vs[partNum + 1]

\* VerticalSlice.getNoteList(): the slice's entries in part order
GetNoteList(vs) == vs

\* interval.notesToInterval(n1, n2): an Interval with noteStart n1 and noteEnd n2
NotesToInterval(n1, n2) == <<n1, n2>>

\* Note.pitch, as a number of semitones
Pitch(n) == Part(n[1])[n[2]].pitch

Abs(x) == IF x < 0 THEN 0 - x ELSE x

\* the size in semitones of an Interval or of a pair of notes
Semitones(n1, n2) == Abs(Pitch(n2) - Pitch(n1))

\* Interval.isConsonant(): unisons, thirds, fifths, sixths and their octaves
IsConsonant(intv) == (Semitones(intv[1], intv[2]) % 12) \in {0, 3, 4, 7, 8, 9}

\* Interval.simpleName in ["A2", "A4", "d5", "m7", "M7"], told by size
IsDissonantMelodic(intv) == (Semitones(intv[1], intv[2]) % 12) \in {6, 10, 11}

\* Interval.generic.undirected: a number from 1
GenericUndirected(intv) == (Semitones(intv[1], intv[2]) * 7) \div 12 + 1

\* Scale.getScaleDegreeFromPitch(pitch): a degree from 1 to 7
GetScaleDegreeFromPitch(n) == (Pitch(n) % 7) + 1

\* The methods of voiceLeading.VoiceLeadingQuartet the rules call. A quartet is
\* <<v1n1, v1n2, v2n1, v2n2>>; a quartet holding None gives no finding.
VlqHasNone(vlq) == \E i \in 1..4 : vlq[i] = None
VlqMotion1(vlq) == Pitch(vlq[2]) - Pitch(vlq[1])
VlqMotion2(vlq) == Pitch(vlq[4]) - Pitch(vlq[3])
VlqHarmonic1(vlq) == Semitones(vlq[1], vlq[3])
VlqHarmonic2(vlq) == Semitones(vlq[2], vlq[4])
VlqSimilar(vlq) == VlqMotion1(vlq) * VlqMotion2(vlq) > 0

ParallelFifth(vlq) ==
    /\ ~VlqHasNone(vlq)
    /\ VlqSimilar(vlq)
    /\ VlqHarmonic1(vlq) % 12 = 7 /\ VlqHarmonic2(vlq) % 12 = 7

ParallelOctave(vlq) ==
    /\ ~VlqHasNone(vlq)
    /\ VlqSimilar(vlq)
    /\ VlqHarmonic1(vlq) > 0 /\ VlqHarmonic1(vlq) % 12 = 0
    /\ VlqHarmonic2(vlq) > 0 /\ VlqHarmonic2(vlq) % 12 = 0

ParallelUnison(vlq) ==
    /\ ~VlqHasNone(vlq)
    /\ VlqSimilar(vlq)
    /\ VlqHarmonic1(vlq) = 0 /\ VlqHarmonic2(vlq) = 0

HiddenFifth(vlq) ==
    /\ ~VlqHasNone(vlq)
    /\ VlqSimilar(vlq)
    /\ VlqHarmonic1(vlq) % 12 # 7 /\ VlqHarmonic2(vlq) % 12 = 7

HiddenOctave(vlq) ==
    /\ ~VlqHasNone(vlq)
    /\ VlqSimilar(vlq)
    /\ VlqHarmonic1(vlq) % 12 # 0 /\ VlqHarmonic2(vlq) > 0 /\ VlqHarmonic2(vlq) % 12 = 0

ImproperResolution(vlq) ==
    /\ ~VlqHasNone(vlq)
    /\ VlqHarmonic1(vlq) % 12 = 6
    /\ (VlqHarmonic2(vlq) % 12) \notin {3, 4, 8, 9}

LeapNotSetWithStep(vlq) ==
    /\ ~VlqHasNone(vlq)
    /\ Abs(VlqMotion1(vlq)) > 2 /\ Abs(VlqMotion2(vlq)) > 2

\* ---------------------------------------------------------------- vertical slices
\* the entry of one part in the slice at onset t (lines 90-95): el.isClassOrSubclass
\* raises AttributeError when the lookup returned None
SliceEntryRaises(p, t) == GetElementAtOrBefore(p, t) = 0

\* an entry that would keep the rest it found
SliceEntryKeepsRest(p, t) == <<p, GetElementAtOrBefore(p, t)>>

SliceEntry(p, t) ==
    LET i == GetElementAtOrBefore(p, t)
    IN  IF Part(p)[i].cls = "Note" THEN <<p, i>> ELSE None

GetVerticalSlices ==
    LET chords == Chordify
    IN  [raised |-> \E k \in 1..Len(chords) : \E p \in PartNums :
                        SliceEntryRaises(p, chords[k]),
         val |-> [k \in 1..Len(chords) |->
                    [q \in 1..NumParts |->
                        IF SliceEntryRaises(q - 1, chords[k]) THEN None
                        ELSE SliceEntry(q - 1, chords[k])]]]

\* triplets that would take every other slice
GetVerticalSliceTripletsSpread(slices) ==
    [i \in 1..Max(Len(slices) - 2, 0) |->
        <<slices[i], slices[Min(i + 2, Len(slices))], slices[Min(i + 4, Len(slices))]>>]

GetVerticalSliceTriplets(slices) ==
    [i \in 1..Max(Len(slices) - 2, 0) |-> <<slices[i], slices[i + 1], slices[i + 2]>>]

\* ---------------------------------------------------------------- analyzer state
\* The fields of the analyzer that a call can change, threaded through the
\* operators that model its methods; ret is the list object a method returns.
NoRet == [id |-> 0 - 1, items |-> <<>>]

Self ==
    [rd |-> resultDict, col |-> colors, vlq |-> vlqCache, tnls |-> tnlsCache,
     nid |-> nextId, raised |-> FALSE, ret |-> NoRet, applied |-> 0]

\* a newly created list: an object of its own
NewList(st, items) ==
    [st EXCEPT !.ret = [id |-> st.nid, items |-> items], !.nid = st.nid + 1]

Put(f, k, v) == [x \in DOMAIN f \cup {k} |-> IF x = k THEN v ELSE f[x]]

\* ---------------------------------------------------------------- derived views
\* a getHarmonicIntervals that would keep its lists as getVLQs does
GetHarmonicIntervalsCached(st, partNum1, partNum2) ==
    LET cacheKey == <<"h">> \o Str(partNum1) \o <<",">> \o Str(partNum2)
    IN  IF cacheKey \in DOMAIN st.vlq
        THEN [st EXCEPT !.ret = st.vlq[cacheKey]]
        ELSE LET new == NewList(st,
                            [k \in 1..Len(verticalSlices) |->
                                LET nUpper == GetNote(verticalSlices[k], partNum1)
                                    nLower == GetNote(verticalSlices[k], partNum2)
                                IN  IF nLower = None \/ nUpper = None THEN None
                                    ELSE NotesToInterval(nLower, nUpper)])
             IN  [new EXCEPT !.vlq = Put(st.vlq, cacheKey, new.ret)]

\* a getHarmonicIntervals that would measure from the first part to the second
GetHarmonicIntervalsSwapped(st, partNum1, partNum2) ==
    NewList(st,
        [k \in 1..Len(verticalSlices) |->
            LET nUpper == GetNote(verticalSlices[k], partNum1)
                nLower == GetNote(verticalSlices[k], partNum2)
            IN  IF nLower = None \/ nUpper = None THEN None
                ELSE NotesToInterval(nUpper, nLower)])

GetHarmonicIntervals(st, partNum1, partNum2) ==
    NewList(st,
        [k \in 1..Len(verticalSlices) |->
            LET nUpper == GetNote(verticalSlices[k], partNum1)
                nLower == GetNote(verticalSlices[k], partNum2)
            IN  IF nLower = None \/ nUpper = None THEN None
                ELSE NotesToInterval(nLower, nUpper)])

\* a getMelodicIntervals that would read the part's entries in the slices
GetMelodicIntervalsFromSlices(st, partNum) ==
    NewList(st,
        [i \in 1..Max(Len(verticalSlices) - 1, 0) |->
            LET n1 == GetNote(verticalSlices[i], partNum)
                n2 == GetNote(verticalSlices[i + 1], partNum)
            IN  IF n1 # None /\ n2 # None THEN NotesToInterval(n1, n2) ELSE None])

GetMelodicIntervals(st, partNum) ==
    LET noteList == Part(partNum)
    IN  NewList(st,
            [i \in 1..Max(Len(noteList) - 1, 0) |->
                IF noteList[i].cls = "Note" /\ noteList[i + 1].cls = "Note"
                THEN NotesToInterval(<<partNum, i>>, <<partNum, i + 1>>)
                ELSE None])

GetNotes(st, partNum) ==
    LET noteOrRestList == Part(partNum)
    IN  NewList(st,
            [i \in 1..Len(noteOrRestList) |->
                IF noteOrRestList[i].cls = "Note" THEN <<partNum, i>> ELSE None])

\* a key that would not tell (a, b) from (b, a)
VlqCacheKeyUnordered(partNum1, partNum2) ==
    Str(Min(partNum1, partNum2)) \o <<",">> \o Str(Max(partNum1, partNum2))

VlqCacheKey(partNum1, partNum2) == Str(partNum1) \o <<",">> \o Str(partNum2)

\* quartets that would pair the two parts slice by slice
VlqListBySlice(partNum1, partNum2) ==
    [i \in 1..Max(Len(verticalSlices) - 1, 0) |->
        <<GetNote(verticalSlices[i], partNum1), GetNote(verticalSlices[i], partNum2),
          GetNote(verticalSlices[i + 1], partNum1), GetNote(verticalSlices[i + 1], partNum2)>>]

\* the quartets of the pair, one per pair of consecutive slices (lines 223-234)
VlqList(partNum1, partNum2) ==
    [i \in 1..Max(Len(verticalSlices) - 1, 0) |->
        <<GetNote(verticalSlices[i], partNum1), GetNote(verticalSlices[i + 1], partNum1),
          GetNote(verticalSlices[i], partNum2), GetNote(verticalSlices[i + 1], partNum2)>>]

\* line 236 stores the list in the cache inside the loop: only a list that got
\* at least one quartet is ever stored
VlqStored(vlqList) == Len(vlqList) > 0

GetVLQs(st, partNum1, partNum2) ==
    LET vlqCacheKey == VlqCacheKey(partNum1, partNum2)
    IN  IF vlqCacheKey \in DOMAIN st.vlq
        THEN [st EXCEPT !.ret = st.vlq[vlqCacheKey]]
        ELSE LET new == NewList(st, VlqList(partNum1, partNum2))
             IN  IF VlqStored(new.ret.items)
                 THEN [new EXCEPT !.vlq = Put(st.vlq, vlqCacheKey, new.ret)]
                 ELSE new

\* a getLinearSegments that would keep the windows of every length
GetLinearSegmentsGeneral(st, partNum, lengthLinearSegment) ==
    NewList(st,
        [i \in 1..Max(Len(verticalSlices) - lengthLinearSegment + 1, 0) |->
            [n \in 1..lengthLinearSegment |->
                GetNote(verticalSlices[i + n - 1], partNum)]])

\* only a segment of length 3 is ever appended (lines 298-304)
GetLinearSegments(st, partNum, lengthLinearSegment) ==
    NewList(st,
        IF lengthLinearSegment = 3
        THEN [i \in 1..Max(Len(verticalSlices) - lengthLinearSegment + 1, 0) |->
                [n \in 1..lengthLinearSegment |->
                    GetNote(verticalSlices[i + n - 1], partNum)]]
        ELSE <<>>)

GetThreeNoteLinearSegments(st, partNum) ==
    LET tnlsCacheKey == Str(partNum)
    IN  IF tnlsCacheKey \in DOMAIN st.tnls
        THEN [st EXCEPT !.ret = st.tnls[tnlsCacheKey]]
        ELSE LET new == GetLinearSegments(st, partNum, 3)
             IN  [new EXCEPT !.tnls = Put(st.tnls, tnlsCacheKey, new.ret)]

\* range(a, b) of Python
Range(a, b) == [i \in 1..Max(b - a, 0) |-> a + i - 1]

RECURSIVE Concat(_)
Concat(ss) == IF ss = <<>> THEN <<>> ELSE Head(ss) \o Concat(Tail(ss))

\* an inner loop that would start at the outer part itself
InnerRangeFromSelf(partNum1, numParts) == Range(partNum1, numParts)

InnerRange(partNum1, numParts) == Range(partNum1 + 1, numParts)

GetAllPartNumPairs ==
    LET numParts == Len(theoryScore)
        outer == Range(0, numParts - 1)
    IN  Concat([a \in 1..Len(outer) |->
                  LET inner == InnerRange(outer[a], numParts)
                  IN  [b \in 1..Len(inner) |-> <<outer[a], inner[b]>>]])

\* ---------------------------------------------------------------- rules
\* The testFunction and textFunction arguments of the evaluators. A test is
\* given the element; the model's tests look at the notes the element holds.
IsAbsent(syms, i) == syms[i] = None
AbsentAt(syms) == {i \in 1..Len(syms) : IsAbsent(syms, i)}

RECURSIVE StrJoin(_)
StrJoin(ns) == IF ns = <<>> THEN <<>> ELSE Str(Head(ns)) \o StrJoin(Tail(ns))

SymName(sym) == IF sym = None THEN <<"None">> ELSE Str(Part(sym[1])[sym[2]].pitch)

RECURSIVE SymNames(_)
SymNames(syms) ==
    IF syms = <<>> THEN <<>> ELSE SymName(Head(syms)) \o <<" ">> \o SymNames(Tail(syms))

\* what stands for a testFunction or textFunction that raised
PyRaise == <<"raise">>

PyBool(b) == IF b THEN PyTrue ELSE PyFalse

\* the nine rules of identifyCommonPracticeErrors, in the order it calls them
CommonPracticeRules ==
    <<"parallelFifths", "parallelOctaves", "hiddenFifths", "hiddenOctaves",
      "parallelUnisons", "improperResolution", "LeapNotSetWithStep",
      "dissonantHarmonicIntervals", "dissonantMelodicIntervals">>

\* the built-in rules that test for None themselves
GuardedRules ==
    {"dissonantHarmonicIntervals", "harmonicIntervals", "dissonantMelodicIntervals",
     "scaleDegrees", "romanNumerals"}

BuiltInRules == {CommonPracticeRules[i] : i \in DOMAIN CommonPracticeRules} \cup GuardedRules

\* a lambda that would take None for a finding
NoneOutcomeTrue == PyTrue

\* what the lambda of a built-in rule that tests for None gives for it: the
\* False of "x is not None and ..", of ".. if x is not None else False" and
\* of "rn = False"
NoneOutcome == PyFalse

\* The testFunction of a call, named by test. The first five are a caller's;
\* the others are the lambdas of the identify* methods, named by their dictKey.
TestFunction(test, syms) ==
    CASE test = "present" -> IF AbsentAt(syms) = {} THEN PyTrue ELSE PyFalse
      [] test = "numAbsent" -> PyInt(Cardinality(AbsentAt(syms)))
      [] test = "absentNames" -> <<"str">> \o StrJoin(Ascending(AbsentAt(syms)))
      [] test = "absentRaises" -> IF AbsentAt(syms) = {} THEN PyTrue ELSE PyRaise
      [] test = "labelRaises" -> PyTrue
      [] test = "parallelFifths" -> PyBool(ParallelFifth(syms))
      [] test = "parallelOctaves" -> PyBool(ParallelOctave(syms))
      [] test = "hiddenFifths" -> PyBool(HiddenFifth(syms))
      [] test = "hiddenOctaves" -> PyBool(HiddenOctave(syms))
      [] test = "parallelUnisons" -> PyBool(ParallelUnison(syms))
      [] test = "improperResolution" -> PyBool(ImproperResolution(syms))
      [] test = "LeapNotSetWithStep" -> PyBool(LeapNotSetWithStep(syms))
      [] test = "dissonantHarmonicIntervals" ->
            IF syms # <<None>> THEN PyBool(~IsConsonant(syms)) ELSE NoneOutcome
      [] test = "dissonantMelodicIntervals" ->
            IF syms # <<None>> THEN PyBool(IsDissonantMelodic(syms)) ELSE NoneOutcome
      [] test = "harmonicIntervals" ->
            IF syms # <<None>> THEN PyInt(GenericUndirected(syms)) ELSE NoneOutcome
      [] test = "scaleDegrees" ->
            IF syms # <<None>> THEN <<"str">> \o Str(GetScaleDegreeFromPitch(syms[1]))
            ELSE NoneOutcome
      [] test = "romanNumerals" ->
            IF AbsentAt(syms) = {} THEN <<"RomanNumeral">> \o SymNames(syms)
            ELSE NoneOutcome

\* The outcome of applying the testFunction when it has been applied `applied`
\* times in the call: "counter" is a caller's predicate with a state of its
\* own, which returns the number of times it has been applied.
Apply(test, syms, applied) ==
    IF test = "counter" THEN PyInt(applied + 1) ELSE TestFunction(test, syms)

\* str(pn + 1) of every part number the evaluator hands to the textFunction
RECURSIVE PartLabels(_)
PartLabels(target) ==
    IF target = <<>> THEN <<>>
    ELSE <<"part">> \o Str(Head(target) + 1) \o PartLabels(Tail(target))

TextFunction(syms, target) == <<"str">> \o SymNames(syms) \o PartLabels(target)

\* the textFunction "labelRaises" comes with raises on an element holding None
TextRaises(test, syms) == test = "labelRaises" /\ AbsentAt(syms) # {}

\* the textFunction of a call: a built-in rule's text begins with words of its own
RuleText(test, syms, target) ==
    IF test \in BuiltInRules
    THEN <<"str", test>> \o Tail(TextFunction(syms, target))
    ELSE TextFunction(syms, target)

\* the notes of an element that a test looks at
Syms(kind, raw, target) ==
    CASE kind \in {"hIntv", "mIntv"} -> IF raw = None THEN <<None>> ELSE raw
      [] kind = "note" -> <<raw>>
      [] kind = "vst" -> <<GetNote(raw[1], target[1]), GetNote(raw[2], target[1]),
                           GetNote(raw[3], target[1])>>
      [] OTHER -> raw

\* the element as a result records it
Flat(kind, raw) ==
    CASE kind = "note" -> <<raw>>
      [] kind = "vst" -> raw[1] \o raw[2] \o raw[3]
      [] OTHER -> raw

\* ---------------------------------------------------------------- results
\* TheoryResult.color(color) of each subclass: the objects whose color attribute
\* is set, in the order the method sets them; None among them raises
ColorTargets(kind, raw, target) ==
    CASE kind = "vlq" -> raw
      [] kind \in {"hIntv", "mIntv"} -> IF raw = None THEN <<None>> ELSE raw
      [] kind = "note" -> <<raw>>
      [] kind = "vs" -> GetNoteList(raw)
      [] kind = "tnls" -> <<raw[2]>>
      [] kind = "vst" -> <<GetNote(raw[2], target[1])>>

RECURSIVE ColorNotes(_, _, _)
ColorNotes(st, targets, color) ==
    IF targets = <<>> THEN st
    ELSE IF Head(targets) = None THEN [st EXCEPT !.raised = TRUE]
    ELSE ColorNotes([st EXCEPT !.col = [st.col EXCEPT ![Head(targets)] = color]],
                    Tail(targets), color)

\* tr.value as the evaluator leaves it: the outcome of the second application
\* of the testFunction (line 423 and its like); the quartet evaluator assigns
\* the text over it (line 426), the triplet evaluator never assigns it
\* (TheoryResult's "")
ResultValue(kind, second, text) ==
    CASE kind = "vlq" -> text
      [] kind = "vst" -> PyEmptyStr
      [] OTHER -> second

\* a plain "if testFunction(el):"
IsFindingTruthy(outcome) == Truthy(outcome)

\* "if testFunction(el) is not False"
IsFinding(outcome) == outcome # PyFalse

\* a color that would be 'red' when none is given
ColorOrRed(color) == IF color # "None" THEN color ELSE "red"

\* the color a loop body colors with: the one given, None for no coloring
GivenColor(color) == color

\* the times a loop body applies the testFunction to a finding: in the test and
\* again for tr.value; the triplet evaluator applies it in the test only
Applications(kind) == IF kind = "vst" THEN 1 ELSE 2

\* a loop body that would catch what the caller's function raises and go on
Swallow(st) == st

\* what the caller's function raises leaves the loop and the call
Propagate(st) == [st EXCEPT !.raised = TRUE]

\* One pass of an evaluator's loop over an element. Nothing catches what the
\* testFunction, the textFunction or the coloring raises.
Visit(kind, st, key, color, test, target, idx, raw) ==
    LET syms == Syms(kind, raw, target)
        first == Apply(test, syms, st.applied)
        tested == [st EXCEPT !.applied = @ + 1]
    IN  IF first = PyRaise THEN Propagate(tested)
        ELSE IF ~IsFinding(first) THEN tested
        ELSE LET twice == Applications(kind) = 2
                 second == IF twice THEN Apply(test, syms, tested.applied) ELSE first
                 valued == IF twice THEN [tested EXCEPT !.applied = @ + 1] ELSE tested
             IN  IF second = PyRaise \/ TextRaises(test, syms)
                 THEN Propagate(valued)
                 ELSE LET text == RuleText(test, syms, target)
                          tr == [kind |-> kind, target |-> target, idx |-> idx,
                                 el |-> Flat(kind, raw),
                                 value |-> ResultValue(kind, second, text),
                                 text |-> text]
                          colored ==
                              IF GivenColor(color) # "None"
                              THEN ColorNotes(valued, ColorTargets(kind, raw, target),
                                              GivenColor(color))
                              ELSE valued
                      IN  IF colored.raised THEN colored
                          ELSE [colored EXCEPT !.rd[key] = Append(@, tr)]

\* "for el in list": the elements in list order, until one raises
RECURSIVE VisitAll(_, _, _, _, _, _, _, _)
VisitAll(kind, st, key, color, test, target, lo, items) ==
    IF items = <<>> \/ st.raised THEN st
    ELSE VisitAll(kind, Visit(kind, st, key, color, test, target, lo + 1, Head(items)),
                  key, color, test, target, lo + 1, Tail(items))

\* an unconditional "self.resultDict[dictKey] = []"
EnsureKeyReset(st, key) == [st EXCEPT !.rd = Put(st.rd, key, <<>>)]

\* "if dictKey not in self.resultDict.keys(): self.resultDict[dictKey] = []"
EnsureKey(st, key) ==
    IF key \in DOMAIN st.rd THEN st ELSE [st EXCEPT !.rd = Put(st.rd, key, <<>>)]

\* ---------------------------------------------------------------- output methods
\* result.color(color) of a stored result: the objects it sets the color of
ResultColorTargets(tr) ==
    CASE tr.kind \in {"hIntv", "mIntv"} -> IF tr.el = None THEN <<None>> ELSE tr.el
      [] tr.kind = "tnls" -> <<tr.el[2]>>
      [] tr.kind = "vst" -> <<tr.el[NumParts + tr.target[1] + 1]>>
      [] OTHER -> tr.el

\* "for result in self.resultDict[resultType]: result.color(color)"
RECURSIVE ColorList(_, _, _)
ColorList(st, results, color) ==
    IF results = <<>> \/ st.raised THEN st
    ELSE ColorList(ColorNotes(st, ResultColorTargets(Head(results)), color),
                   Tail(results), color)

\* the orders in which "for resultType in self.resultDict.keys()" can give keys
KeyOrders(keys) ==
    {order \in [1..Cardinality(keys) -> keys] :
        \A i \in DOMAIN order : \A j \in DOMAIN order : order[i] = order[j] => i = j}

\* typeList is None or a list of keys
RECURSIVE ColorResults(_, _, _, _)
ColorResults(st, color, typeList, order) ==
    IF order = <<>> \/ st.raised THEN st
    ELSE ColorResults(
             IF typeList = None \/ \E i \in 1..Len(typeList) : typeList[i] = Head(order)
             THEN ColorList(st, st.rd[Head(order)], color)
             ELSE st,
             color, typeList, Tail(order))

\* a test that would take every key
InTypeListAlways(typeList, resultType) == TRUE

\* "typeList is None or resultType in typeList"
InTypeList(typeList, resultType) ==
    typeList = None \/ \E i \in 1..Len(typeList) : typeList[i] = resultType

\* "for result in self.resultDict[resultType]: resultStr += result.text;
\* resultStr += '\n'": a str is the sequence of its pieces after "str"
RECURSIVE ResultLines(_)
ResultLines(results) ==
    IF results = <<>> THEN <<>>
    ELSE Tail(Head(results).text) \o <<"\n">> \o ResultLines(Tail(results))

\* getResultsString(typeList): the str it returns, the keys coming in order
RECURSIVE GetResultsString(_, _, _)
GetResultsString(rd, typeList, order) ==
    IF order = <<>> THEN PyEmptyStr
    ELSE <<"str">>
         \o (IF InTypeList(typeList, Head(order))
             THEN <<Head(order), ": \n">> \o ResultLines(rd[Head(order)])
             ELSE <<>>)
         \o Tail(GetResultsString(rd, typeList, Tail(order)))

\* ---------------------------------------------------------------- evaluators
\* the list an evaluator walks for one target: what the accessor it calls
\* returns, or self.verticalSliceTriplets
View(kind, st, target) ==
    CASE kind = "vlq" -> GetVLQs(st, target[1], target[2])
      [] kind = "hIntv" -> GetHarmonicIntervals(st, target[1], target[2])
      [] kind = "mIntv" -> GetMelodicIntervals(st, target[1])
      [] kind = "note" -> GetNotes(st, target[1])
      [] kind = "vst" -> [st EXCEPT !.ret = [id |-> NoRet.id, items |-> verticalSliceTriplets]]
      [] kind = "tnls" -> GetThreeNoteLinearSegments(st, target[1])

\* the branch of an evaluator taken with concrete part numbers; only the
\* quartet evaluator takes a part of the list (lines 419-421)
Concrete(kind, st, target, color, key, test, startIndex, endIndex) ==
    LET got == View(kind, st, target)
        list == got.ret.items
        stop == IF endIndex = None /\ startIndex >= 0 THEN <<Len(list)>> ELSE endIndex
        part == IF kind = "vlq" THEN PySlice(list, startIndex, stop)
                ELSE [lo |-> 0, items |-> list]
    IN  VisitAll(kind, got, key, color, test, target, part.lo, part.items)

\* the branch taken without part numbers: one concrete call per target, in order
RECURSIVE OverTargets(_, _, _, _, _, _, _, _)
OverTargets(kind, st, targets, color, key, test, startIndex, endIndex) ==
    IF targets = <<>> \/ st.raised THEN st
    ELSE OverTargets(kind,
                     Concrete(kind, EnsureKey(st, key), Head(targets), color, key, test,
                              startIndex, endIndex),
                     Tail(targets), color, key, test, startIndex, endIndex)

\* the parts from the last to the first
AllPartNumsDescending == [i \in 1..Len(theoryScore) |-> <<Len(theoryScore) - i>>]

AllPartNums == [i \in 1..Len(theoryScore) |-> <<i - 1>>]

Returned(st) == [st EXCEPT !.ret = NoRet]

\* pairs that would be those holding the one part number that was given
PairTargetsWithPart(partNum1, partNum2) ==
    LET given == partNum1 \o partNum2
    IN  SelectSeq(GetAllPartNumPairs,
                  LAMBDA pair : given = <<>> \/ pair[1] = given[1] \/ pair[2] = given[1])

\* "for (partNum1, partNum2) in self.getAllPartNumPairs()": the loop binds both
\* names anew, so a part number given alone is never looked at
PairTargets(partNum1, partNum2) == GetAllPartNumPairs

\* partNum1, partNum2 and partNum are <<>> for None and <<n>> for the int n
IdentifyBasedOnVLQ(st, partNum1, partNum2, color, key, test, startIndex, endIndex) ==
    Returned(
        IF partNum1 = None \/ partNum2 = None
        THEN OverTargets("vlq", EnsureKey(st, key), PairTargets(partNum1, partNum2), color,
                         key, test, startIndex, endIndex)
        ELSE Concrete("vlq", EnsureKey(st, key), partNum1 \o partNum2, color, key, test,
                      startIndex, endIndex))

IdentifyBasedOnHarmonicInterval(st, partNum1, partNum2, color, key, test) ==
    Returned(
        IF partNum1 = None \/ partNum2 = None
        THEN OverTargets("hIntv", EnsureKey(st, key), PairTargets(partNum1, partNum2), color,
                         key, test, 0, None)
        ELSE Concrete("hIntv", EnsureKey(st, key), partNum1 \o partNum2, color, key, test,
                      0, None))

IdentifyBasedOnMelodicInterval(st, partNum, color, key, test) ==
    Returned(
        IF partNum = None
        THEN OverTargets("mIntv", EnsureKey(st, key), AllPartNums, color, key, test, 0, None)
        ELSE Concrete("mIntv", EnsureKey(st, key), partNum, color, key, test, 0, None))

IdentifyBasedOnNote(st, partNum, color, key, test) ==
    Returned(
        IF partNum = None
        THEN OverTargets("note", EnsureKey(st, key), AllPartNums, color, key, test, 0, None)
        ELSE Concrete("note", EnsureKey(st, key), partNum, color, key, test, 0, None))

IdentifyBasedOnVerticalSlice(st, color, key, test) ==
    Returned(VisitAll("vs", EnsureKey(st, key), key, color, test, <<>>, 0, verticalSlices))

IdentifyBasedOnVerticalSliceTriplet(st, partNumToIdentify, color, key, test) ==
    Returned(
        IF partNumToIdentify = None
        THEN OverTargets("vst", EnsureKey(st, key), AllPartNums, color, key, test, 0, None)
        ELSE Concrete("vst", EnsureKey(st, key), partNumToIdentify, color, key, test,
                      0, None))

IdentifyBasedOnThreeNoteLinearSegment(st, partNum, color, key, test) ==
    Returned(
        IF partNum = None
        THEN OverTargets("tnls", EnsureKey(st, key), AllPartNums, color, key, test, 0, None)
        ELSE Concrete("tnls", EnsureKey(st, key), partNum, color, key, test, 0, None))

\* ---------------------------------------------------------------- built-in rules
\* An identify* method hands its two lambdas to the evaluator of its kind; the
\* rule is named by the method's default dictKey.
RuleKind(rule) ==
    CASE rule \in {"dissonantHarmonicIntervals", "harmonicIntervals"} -> "hIntv"
      [] rule = "dissonantMelodicIntervals" -> "mIntv"
      [] rule = "scaleDegrees" -> "note"
      [] rule = "romanNumerals" -> "vs"
      [] OTHER -> "vlq"

\* identifyParallelFifths .. identifyLeapNotSetWithStep,
\* identifyDissonantHarmonicIntervals and identifyHarmonicIntervals
IdentifyPairRule(st, rule, partNum1, partNum2, color, dictKey) ==
    IF RuleKind(rule) = "vlq"
    THEN IdentifyBasedOnVLQ(st, partNum1, partNum2, color, dictKey, rule, 0, None)
    ELSE IdentifyBasedOnHarmonicInterval(st, partNum1, partNum2, color, dictKey, rule)

\* identifyDissonantMelodicIntervals and identifyScaleDegrees
IdentifyPartRule(st, rule, partNum, color, dictKey) ==
    IF RuleKind(rule) = "mIntv"
    THEN IdentifyBasedOnMelodicInterval(st, partNum, color, dictKey, rule)
    ELSE IdentifyBasedOnNote(st, partNum, color, dictKey, rule)

IdentifyRomanNumerals(st, color, dictKey) ==
    IdentifyBasedOnVerticalSlice(st, color, dictKey, "romanNumerals")

\* a dissonant-melodic call that would be given the first part of the pair
MelodicPartOfPair(partNum1, partNum2) == partNum1

\* identifyDissonantMelodicIntervals(dictKey = dictKey, color = 'cyan'): partNum
\* keeps its default
MelodicPart(partNum1, partNum2) == None

\* calls that would begin with the parallel unisons
CommonPracticeOrderUnisonsFirst == <<5, 2, 3, 4, 1, 6, 7, 8, 9>>

\* the order of the nine calls of identifyCommonPracticeErrors
CommonPracticeOrder == <<1, 2, 3, 4, 5, 6, 7, 8, 9>>

\* the color identifyCommonPracticeErrors gives each of its nine calls
CommonPracticeColors ==
    <<"red", "orange", "yellow", "green", "blue", "purple", "white", "magenta", "cyan">>

\* the n-th of the nine rules, called as identifyCommonPracticeErrors calls it
CommonPracticeCall(st, n, partNum1, partNum2, dictKey) ==
    IF n <= 8
    THEN IdentifyPairRule(st, CommonPracticeRules[n], partNum1, partNum2,
                          CommonPracticeColors[n], dictKey)
    ELSE IdentifyPartRule(st, CommonPracticeRules[n], MelodicPart(partNum1, partNum2),
                          CommonPracticeColors[n], dictKey)

RECURSIVE CommonPracticeCalls(_, _, _, _, _)
CommonPracticeCalls(st, order, partNum1, partNum2, dictKey) ==
    IF order = <<>> \/ st.raised THEN st
    ELSE CommonPracticeCalls(
             CommonPracticeCall(st, Head(order), partNum1, partNum2, dictKey),
             Tail(order), partNum1, partNum2, dictKey)

IdentifyCommonPracticeErrors(st, partNum1, partNum2, dictKey) ==
    CommonPracticeCalls(st, CommonPracticeOrder, partNum1, partNum2, dictKey)

\* ---------------------------------------------------------------- part numbers out of range
\* A part number outside 0..numParts-1 makes a method raise where it first
\* looks a part up with it: getNote(partNum) on a slice, or parts[partNum].
Accessors ==
    {"getHarmonicIntervals", "getMelodicIntervals", "getNotes", "getVLQs",
     "getLinearSegments", "getThreeNoteLinearSegments"}
PartEvaluators == {"vlq", "hIntv", "mIntv", "note", "vst", "tnls"}

\* the number of vertical slices a method needs to reach its first lookup
SlicesNeeded(method, lengthLinearSegment) ==
    CASE method \in {"getMelodicIntervals", "getNotes", "mIntv", "note"} -> 0
      [] method \in {"getHarmonicIntervals", "hIntv"} -> 1
      [] method \in {"getVLQs", "vlq"} -> 2
      [] method \in {"getThreeNoteLinearSegments", "tnls", "vst"} -> 3
      [] method = "getLinearSegments" -> lengthLinearSegment

\* the method called with a part number that is out of range
CallWithBadPart(st, method, partNum, lengthLinearSegment, key) ==
    LET entered == IF method \in PartEvaluators THEN EnsureKey(st, key) ELSE st
        cached == method \in {"getThreeNoteLinearSegments", "tnls"}
    IN  IF Len(verticalSlices) >= SlicesNeeded(method, lengthLinearSegment)
        THEN [entered EXCEPT !.raised = TRUE]
        ELSE IF method = "vst" THEN entered
        ELSE LET new == NewList(entered, <<>>)
                 kept == IF ~cached THEN new
                         ELSE IF Str(partNum) \in DOMAIN entered.tnls
                         THEN [entered EXCEPT !.ret = entered.tnls[Str(partNum)]]
                         ELSE [new EXCEPT !.tnls = Put(new.tnls, Str(partNum), new.ret)]
             IN  IF method \in PartEvaluators THEN Returned(kept) ELSE kept

\* ---------------------------------------------------------------- calls
\* In mode "wide" the analyzer gets one call, with every argument of the sets
\* below; in mode "seq" it gets up to MaxCalls calls with fewer arguments. In
\* mode "rules" it gets one call of an evaluator with a testFunction or
\* textFunction that raises or keeps a state, or of a built-in rule. In mode
\* "out" it gets two calls and then the output methods.
Budget == IF mode \in {"wide", "rules"} THEN 1 ELSE IF mode = "out" THEN 2 ELSE MaxCalls
CanCall == pc = "ready" /\ calls < Budget

TestArgs ==
    CASE mode = "wide" -> {"present", "numAbsent", "absentNames"}
      [] mode = "rules" -> {"numAbsent", "absentRaises", "labelRaises", "counter"}
      [] OTHER -> {"numAbsent"}
ColorArgs == IF mode = "wide" THEN {"None", "red"} ELSE {"None"}
KeyArgs == IF mode \in {"wide", "rules"} THEN {"k1"} ELSE {"k1", "k2"}
PartArgs == {None} \cup (IF mode \in {"wide", "rules"} THEN {<<a>> : a \in PartNums} ELSE {})
PairArgs ==
    {<<None, None>>}
    \cup (IF mode \in {"wide", "rules"}
          THEN {<<<<a>>, <<b>>>> : a \in PartNums, b \in PartNums} ELSE {})
    \cup (IF mode = "rules"
          THEN {<<<<a>>, None>> : a \in PartNums} \cup {<<None, <<b>>>> : b \in PartNums}
          ELSE {})
\* the color argument of a built-in rule
RuleColorArgs == {"None", "red"}
IndexArgs ==
    {<<0, None>>} \cup (IF mode = "wide" THEN {<<0, <<1>>>>, <<0 - 1, None>>} ELSE {})

LengthArgs == IF mode = "wide" THEN 1..MaxLength ELSE {3}

TypeListArgs ==
    CASE mode = "wide" -> {None}
      [] mode = "out" -> {None, <<"k2">>}
      [] OTHER -> {None, <<"k1">>}

\* the calls after which an output method can still be called
OutputBudget == CASE mode = "wide" -> 2 [] mode = "out" -> 3 [] OTHER -> MaxCalls

BadPartArgs == {NumParts} \cup (IF mode = "wide" THEN {0 - 1} ELSE {})
BadMethodArgs ==
    IF mode = "wide" THEN Accessors \cup PartEvaluators ELSE {"getThreeNoteLinearSegments"}

NoCall ==
    [op |-> "none", args |-> <<>>, color |-> "None", key |-> "", test |-> "",
     startIndex |-> 0, endIndex |-> None, raised |-> FALSE, ret |-> NoRet,
     pre |-> <<>>, preVlq |-> <<>>, preId |-> 1, method |-> "", applied |-> 0,
     order |-> <<>>, out |-> PyEmptyStr]

\* a call that would empty the analyzer's slices when it colors
CommitDropsSlices(st, call) ==
    /\ resultDict' = st.rd
    /\ colors' = st.col
    /\ vlqCache' = st.vlq
    /\ tnlsCache' = st.tnls
    /\ nextId' = st.nid
    /\ calls' = calls + 1
    /\ last' = [call EXCEPT !.raised = st.raised, !.ret = st.ret, !.pre = resultDict,
                              !.preVlq = vlqCache, !.preId = nextId,
                              !.applied = st.applied]
    /\ verticalSlices' = IF call.op = "colorResults" THEN <<>> ELSE verticalSlices
    /\ UNCHANGED <<mode, theoryScore, pc, verticalSliceTriplets, rtVars, scVars>>

\* the analyzer after a call, and the record of the call
Commit(st, call) ==
    /\ resultDict' = st.rd
    /\ colors' = st.col
    /\ vlqCache' = st.vlq
    /\ tnlsCache' = st.tnls
    /\ nextId' = st.nid
    /\ calls' = calls + 1
    /\ last' = [call EXCEPT !.raised = st.raised, !.ret = st.ret, !.pre = resultDict,
                              !.preVlq = vlqCache, !.preId = nextId,
                              !.applied = st.applied]
    /\ UNCHANGED <<mode, theoryScore, pc, verticalSlices, verticalSliceTriplets, rtVars, scVars>>

\* the name under which the history keeps an accessor's first return
RECURSIVE ArgNames(_)
ArgNames(args) ==
    IF args = <<>> THEN <<>> ELSE Str(Head(args)) \o <<",">> \o ArgNames(Tail(args))

Signature(op, args) == <<op>> \o ArgNames(args)

Remember(op, args, st) ==
    firstRet' = IF Signature(op, args) \in DOMAIN firstRet THEN firstRet
                ELSE Put(firstRet, Signature(op, args), st.ret)

Construct ==
    /\ pc = "new"
    /\ LET built == GetVerticalSlices
       IN  IF built.raised
           THEN /\ pc' = "raised"
                /\ UNCHANGED <<verticalSlices, verticalSliceTriplets>>
           ELSE /\ pc' = "ready"
                /\ verticalSlices' = built.val
                /\ verticalSliceTriplets' = GetVerticalSliceTriplets(built.val)
    /\ UNCHANGED <<mode, theoryScore, vlqCache, tnlsCache, resultDict, colors, nextId,
                   firstRet, calls, last, rtVars, scVars>>

CallGetHarmonicIntervals ==
    /\ CanCall
    /\ \E a \in PartNums, b \in PartNums :
          LET st == GetHarmonicIntervals(Self, a, b)
          IN  /\ Commit(st, [NoCall EXCEPT !.op = "getHarmonicIntervals", !.args = <<a, b>>])
              /\ Remember("getHarmonicIntervals", <<a, b>>, st)

CallGetMelodicIntervals ==
    /\ CanCall
    /\ \E a \in PartNums :
          LET st == GetMelodicIntervals(Self, a)
          IN  /\ Commit(st, [NoCall EXCEPT !.op = "getMelodicIntervals", !.args = <<a>>])
              /\ Remember("getMelodicIntervals", <<a>>, st)

CallGetVLQs ==
    /\ CanCall
    /\ \E a \in PartNums, b \in PartNums :
          LET st == GetVLQs(Self, a, b)
          IN  /\ Commit(st, [NoCall EXCEPT !.op = "getVLQs", !.args = <<a, b>>])
              /\ Remember("getVLQs", <<a, b>>, st)

CallGetLinearSegments ==
    /\ CanCall
    /\ \E a \in PartNums, len \in LengthArgs :
          LET st == GetLinearSegments(Self, a, len)
          IN  /\ Commit(st, [NoCall EXCEPT !.op = "getLinearSegments", !.args = <<a, len>>])
              /\ UNCHANGED firstRet

\* colorResults can follow the one call of mode "wide"
CallColorResults ==
    /\ pc = "ready"
    /\ calls < OutputBudget
    /\ \E typeList \in TypeListArgs, order \in KeyOrders(DOMAIN resultDict) :
          /\ Commit(Returned(ColorResults(Self, "red", typeList, order)),
                    [NoCall EXCEPT !.op = "colorResults", !.color = "red",
                                   !.args = <<typeList>>])
          /\ UNCHANGED firstRet

CallGetResultsString ==
    /\ pc = "ready"
    /\ calls < OutputBudget
    /\ \E typeList \in TypeListArgs, order \in KeyOrders(DOMAIN resultDict) :
          /\ Commit(Self,
                    [NoCall EXCEPT !.op = "getResultsString", !.args = <<typeList>>,
                                   !.order = order,
                                   !.out = GetResultsString(resultDict, typeList, order)])
          /\ UNCHANGED firstRet

CallOutOfRange ==
    /\ CanCall
    /\ \E method \in BadMethodArgs, partNum \in BadPartArgs,
          len \in LengthArgs, key \in KeyArgs :
          /\ method # "getLinearSegments" => len = 3
          /\ method \in Accessors => key = "k1"
          /\ Commit(CallWithBadPart(Self, method, partNum, len, key),
                    [NoCall EXCEPT !.op = "outOfRange", !.method = method,
                                   !.args = <<partNum, len>>, !.key = key])
          /\ UNCHANGED firstRet

CallGetAllPartNumPairs ==
    /\ CanCall
    /\ LET st == NewList(Self, GetAllPartNumPairs)
       IN  /\ Commit(st, [NoCall EXCEPT !.op = "getAllPartNumPairs"])
           /\ UNCHANGED firstRet

CallIdentifyBasedOnVLQ ==
    /\ CanCall
    /\ \E pp \in PairArgs, color \in ColorArgs, key \in KeyArgs, test \in TestArgs,
          ix \in IndexArgs :
          /\ Commit(IdentifyBasedOnVLQ(Self, pp[1], pp[2], color, key, test, ix[1], ix[2]),
                    [NoCall EXCEPT !.op = "vlq", !.args = pp, !.color = color, !.key = key,
                                   !.test = test, !.startIndex = ix[1], !.endIndex = ix[2]])
          /\ UNCHANGED firstRet

CallIdentifyBasedOnHarmonicInterval ==
    /\ CanCall
    /\ \E pp \in PairArgs, color \in ColorArgs, key \in KeyArgs, test \in TestArgs :
          /\ Commit(IdentifyBasedOnHarmonicInterval(Self, pp[1], pp[2], color, key, test),
                    [NoCall EXCEPT !.op = "hIntv", !.args = pp, !.color = color, !.key = key,
                                   !.test = test])
          /\ UNCHANGED firstRet

CallIdentifyBasedOnMelodicInterval ==
    /\ CanCall
    /\ \E pn \in PartArgs, color \in ColorArgs, key \in KeyArgs, test \in TestArgs :
          /\ Commit(IdentifyBasedOnMelodicInterval(Self, pn, color, key, test),
                    [NoCall EXCEPT !.op = "mIntv", !.args = <<pn>>, !.color = color,
                                   !.key = key, !.test = test])
          /\ UNCHANGED firstRet

CallIdentifyBasedOnNote ==
    /\ CanCall
    /\ \E pn \in PartArgs, color \in ColorArgs, key \in KeyArgs, test \in TestArgs :
          /\ Commit(IdentifyBasedOnNote(Self, pn, color, key, test),
                    [NoCall EXCEPT !.op = "note", !.args = <<pn>>, !.color = color,
                                   !.key = key, !.test = test])
          /\ UNCHANGED firstRet

CallIdentifyBasedOnVerticalSlice ==
    /\ CanCall
    /\ \E color \in ColorArgs, key \in KeyArgs, test \in TestArgs :
          /\ Commit(IdentifyBasedOnVerticalSlice(Self, color, key, test),
                    [NoCall EXCEPT !.op = "vs", !.color = color, !.key = key, !.test = test])
          /\ UNCHANGED firstRet

CallIdentifyBasedOnVerticalSliceTriplet ==
    /\ CanCall
    /\ \E pn \in PartArgs, color \in ColorArgs, key \in KeyArgs, test \in TestArgs :
          /\ Commit(IdentifyBasedOnVerticalSliceTriplet(Self, pn, color, key, test),
                    [NoCall EXCEPT !.op = "vst", !.args = <<pn>>, !.color = color,
                                   !.key = key, !.test = test])
          /\ UNCHANGED firstRet

CallIdentifyBasedOnThreeNoteLinearSegment ==
    /\ CanCall
    /\ \E pn \in PartArgs, color \in ColorArgs, key \in KeyArgs, test \in TestArgs :
          /\ Commit(IdentifyBasedOnThreeNoteLinearSegment(Self, pn, color, key, test),
                    [NoCall EXCEPT !.op = "tnls", !.args = <<pn>>, !.color = color,
                                   !.key = key, !.test = test])
          /\ UNCHANGED firstRet

\* the rules of each kind that are called on their own, under their default key
PairRuleArgs == {"dissonantHarmonicIntervals", "harmonicIntervals"}
PartRuleArgs == {"dissonantMelodicIntervals", "scaleDegrees"}

\* identifyDissonantHarmonicIntervals and identifyHarmonicIntervals
CallIdentifyPairRule ==
    /\ CanCall
    /\ \E rule \in PairRuleArgs, pp \in PairArgs, color \in RuleColorArgs :
          /\ Commit(IdentifyPairRule(Self, rule, pp[1], pp[2], color, rule),
                    [NoCall EXCEPT !.op = RuleKind(rule), !.args = pp, !.color = color,
                                   !.key = rule, !.test = rule])
          /\ UNCHANGED firstRet

\* identifyDissonantMelodicIntervals and identifyScaleDegrees
CallIdentifyPartRule ==
    /\ CanCall
    /\ \E rule \in PartRuleArgs, pn \in PartArgs, color \in RuleColorArgs :
          /\ Commit(IdentifyPartRule(Self, rule, pn, color, rule),
                    [NoCall EXCEPT !.op = RuleKind(rule), !.args = <<pn>>, !.color = color,
                                   !.key = rule, !.test = rule])
          /\ UNCHANGED firstRet

CallIdentifyRomanNumerals ==
    /\ CanCall
    /\ \E color \in RuleColorArgs :
          /\ Commit(IdentifyRomanNumerals(Self, color, "romanNumerals"),
                    [NoCall EXCEPT !.op = "vs", !.color = color, !.key = "romanNumerals",
                                   !.test = "romanNumerals"])
          /\ UNCHANGED firstRet

CallIdentifyCommonPracticeErrors ==
    /\ CanCall
    /\ \E pp \in PairArgs :
          /\ Commit(IdentifyCommonPracticeErrors(Self, pp[1], pp[2], "commonPracticeErrors"),
                    [NoCall EXCEPT !.op = "commonPracticeErrors", !.args = pp,
                                   !.key = "commonPracticeErrors"])
          /\ UNCHANGED firstRet

\* ---------------------------------------------------------------- romanText/translate.py
\* the tokens of a roman text handler
Token(kind, data, number, variantNumber, atoms) ==
    [kind |-> kind, data |-> data, number |-> number, variantNumber |-> variantNumber,
     atoms |-> atoms]

RTKey(data) == [cls |-> "RTKey", data |-> data, beat |-> 0]
RTBeat(beat) == [cls |-> "RTBeat", data |-> <<>>, beat |-> beat]
RTChord(src) == [cls |-> "RTChord", data |-> <<src>>, beat |-> 0]

MetadataTokens == {Token(k, <<"text">>, <<>>, None, <<>>) : k \in {"title", "work", "composer"}}

TimeSignatureTokens == {Token("timeSignature", d, <<>>, None, <<>>) : d \in {<<"4/4">>, <<"3/4">>}}

AtomLists ==
    {<<>>, <<RTChord("I")>>, <<RTKey(<<"C">>), RTChord("V")>>, <<RTBeat(2)>>,
     <<RTBeat(2), RTChord("I")>>}

MeasureTokens ==
    {Token("measure", <<>>, <<n>>, None, a) : n \in 1..MaxMeasureNumber, a \in AtomLists}
        \cup {Token("measure", <<>>, <<n>>, <<1>>, <<RTChord("I")>>) : n \in 1..MaxMeasureNumber}
        \cup {Token("measure", <<>>, <<n, n + 1>>, None, <<RTChord("I")>>) :
                  n \in 1..(MaxMeasureNumber - 1)}

\* meter.TimeSignature(data).barDuration.quarterLength
BarQuarterLength(ts) == IF ts = <<"3/4">> THEN 3 ELSE 4

\* RTBeat.getOffset(ts): the beats of both meters are quarters
GetOffset(beat, ts) == beat - 1

\* the number of a stream.Measure that was given none
UnsetNumber == 0

\* the quarterLength of a new RomanNumeral or Note
DefaultQuarterLength == 1

Tie(type) == <<type>>

\* kCurrent before any key atom: the name is not bound
Unbound == <<"unbound">>

\* the local variables of romanTextToStreamScore
Builder ==
    [md |-> md, p |-> measures, heap |-> chordHeap, tsCurrent |-> tsCurrent,
     tsSet |-> tsSet, lastMeasureNumber |-> lastMeasureNumber,
     previousChord |-> previousChord, kCurrent |-> kCurrent, copyOf |-> copyOf,
     raised |-> FALSE]

\* a previous chord that would start a new tie with every copy
TieAlwaysStart(tie) == Tie("start")

\* the tie of previousChord once a copy of it follows
TieOfCopied(tie) == IF tie = None THEN Tie("start") ELSE Tie("continue")

\* newRn = copy.deepcopy(previousChord) with an empty lyric and the given length,
\* tied to previousChord, which it replaces
CopyChord(b, quarterLength) ==
    LET id == b.previousChord[1]
        newRn == [b.heap[id] EXCEPT !.lyric = <<"">>, !.quarterLength = quarterLength,
                                    !.tie = Tie("stop")]
    IN  [b EXCEPT !.heap = Append([@ EXCEPT ![id].tie = TieOfCopied(@)], newRn),
                  !.copyOf = Append(@, id),
                  !.previousChord = <<Len(b.heap) + 1>>]

\* for i in range(i, stop): one filler measure with a copy of previousChord
RECURSIVE FillMeasures(_, _, _)
FillMeasures(b, i, stop) ==
    IF i >= stop \/ b.raised THEN b
    ELSE IF b.tsCurrent = None THEN [b EXCEPT !.raised = TRUE]
    ELSE LET c == CopyChord(b, BarQuarterLength(b.tsCurrent))
             fillM == [number |-> i, timeSignature |-> None,
                       elements |-> <<[offset |-> 0, chord |-> c.previousChord[1]]>>]
         IN  FillMeasures([c EXCEPT !.p = Append(@, fillM)], i + 1, stop)

\* roman.RomanNumeral(src, kCurrent), or the placeholder note.Note() when that
\* raises: kCurrent is read before any key atom bound it
NewChord(src, key) ==
    [cls |-> IF key = Unbound THEN "Note" ELSE "RomanNumeral",
     figure |-> IF key = Unbound THEN None ELSE src,
     key |-> IF key = Unbound THEN None ELSE key,
     lyric |-> src, tie |-> None, quarterLength |-> DefaultQuarterLength]

\* previousChordInMeasure.getOffsetBySite(m)
OffsetInMeasure(m, id) ==
    LET k == CHOOSE k \in 1..Len(m.elements) : m.elements[k].chord = id
    IN  m.elements[k].offset

\* one atom of a measure token; x holds the builder b, the measure m, the offset
\* o and previousChordInMeasure
Atom(x, a) ==
    IF a.cls = "RTKey" THEN [x EXCEPT !.b.kCurrent = a.data]
    ELSE IF a.cls = "RTBeat"
    THEN IF x.b.tsCurrent = None THEN [x EXCEPT !.b.raised = TRUE]
         ELSE LET o == GetOffset(a.beat, x.b.tsCurrent)
              IN  IF x.previousChordInMeasure = None /\ x.b.previousChord # None
                  THEN LET c == CopyChord(x.b, o)
                       IN  [x EXCEPT !.b = c, !.o = o,
                                     !.previousChordInMeasure = c.previousChord,
                                     !.m.elements =
                                         Append(@, [offset |-> 0,
                                                    chord |-> c.previousChord[1]])]
                  ELSE [x EXCEPT !.o = o]
    ELSE LET id == Len(x.b.heap) + 1
             timed == IF x.previousChordInMeasure = None THEN x.b.heap
                      ELSE [x.b.heap EXCEPT ![x.previousChordInMeasure[1]].quarterLength =
                                x.o - OffsetInMeasure(x.m, x.previousChordInMeasure[1])]
         IN  [x EXCEPT !.b.heap = Append(timed, NewChord(a.data, x.b.kCurrent)),
                       !.b.copyOf = Append(@, 0),
                       !.b.previousChord = <<id>>,
                       !.previousChordInMeasure = <<id>>,
                       !.m.elements = Append(@, [offset |-> x.o, chord |-> id])]

RECURSIVE Atoms(_, _)
Atoms(x, atoms) ==
    IF atoms = <<>> \/ x.b.raised THEN x ELSE Atoms(Atom(x, Head(atoms)), Tail(atoms))

\* the filler measures before the token's measure
FillGap(b, t) ==
    IF t.number[1] > b.lastMeasureNumber + 1 /\ b.previousChord # None
    THEN LET filled == FillMeasures(b, b.lastMeasureNumber + 1, t.number[1])
         IN  IF filled.raised THEN filled
             ELSE [filled EXCEPT !.lastMeasureNumber = t.number[1] - 1]
    ELSE b

\* a measure token that is no variant: the fillers, the measure and its atoms
Measure(b, t) ==
    LET filled == FillGap(b, t)
        m == [number |-> IF Len(t.number) = 1 THEN t.number[1] ELSE UnsetNumber,
              timeSignature |-> IF ~filled.tsSet THEN filled.tsCurrent ELSE None,
              elements |-> <<>>]
        numbered == [filled EXCEPT !.tsSet = TRUE,
                                   !.lastMeasureNumber = IF Len(t.number) = 1
                                                         THEN t.number[1]
                                                         ELSE t.number[2]]
        x == Atoms([b |-> numbered, m |-> m, o |-> 0, previousChordInMeasure |-> None],
                   t.atoms)
        e == x.b
    IN  IF filled.raised THEN filled
        ELSE IF e.raised THEN e
        ELSE IF e.tsCurrent = None \/ e.previousChord = None
        THEN [e EXCEPT !.raised = TRUE]
        ELSE [e EXCEPT !.heap[e.previousChord[1]].quarterLength =
                           BarQuarterLength(e.tsCurrent) - x.o,
                       !.p = Append(@, x.m)]

\* a variant measure that would be built like any other
VariantBuilt(b, t) == Measure(b, t)

\* if t.variantNumber is not None: continue
Variant(b, t) == b

\* the builder after one token, and the record of the token
Step(b, t) ==
    /\ md' = b.md
    /\ measures' = b.p
    /\ chordHeap' = b.heap
    /\ tsCurrent' = b.tsCurrent
    /\ tsSet' = b.tsSet
    /\ lastMeasureNumber' = b.lastMeasureNumber
    /\ previousChord' = b.previousChord
    /\ kCurrent' = b.kCurrent
    /\ copyOf' = b.copyOf
    /\ rtPc' = IF b.raised THEN "raised" ELSE "loop"
    /\ rtLast' = [tok |-> t, pre |-> Builder, count |-> rtLast.count + 1]
    /\ UNCHANGED <<taVars, scVars>>

Reading == rtPc = "loop" /\ rtLast.count < MaxTokens

TokenMetadata ==
    /\ Reading
    /\ \E t \in MetadataTokens :
          Step([Builder EXCEPT !.md = IF t.kind = "title" THEN [@ EXCEPT !.title = t.data]
                                       ELSE IF t.kind = "work"
                                       THEN [@ EXCEPT !.alternativeTitle = t.data]
                                       ELSE [@ EXCEPT !.composer = t.data]], t)

TokenTimeSignature ==
    /\ Reading
    /\ \E t \in TimeSignatureTokens :
          Step([Builder EXCEPT !.tsCurrent = t.data, !.tsSet = FALSE], t)

TokenMeasure ==
    /\ Reading
    /\ \E t \in MeasureTokens :
          Step(IF t.variantNumber # None THEN Variant(Builder, t) ELSE Measure(Builder, t),
               t)

\* the tokens are exhausted: p.makeBeams(); s.insert(0, p); return s
ReturnScore ==
    /\ rtPc = "loop"
    /\ rtPc' = "returned"
    /\ UNCHANGED <<taVars, scVars, md, measures, chordHeap, tsCurrent, tsSet, lastMeasureNumber,
                   previousChord, kCurrent, copyOf, rtLast>>

NoToken == Token("none", <<>>, <<>>, None, <<>>)

\* the locals of romanTextToStreamScore before its loop
BuilderNew ==
    /\ rtPc = "loop"
    /\ md = [title |-> None, alternativeTitle |-> None, composer |-> None]
    /\ measures = <<>>
    /\ chordHeap = <<>>
    /\ tsCurrent = None
    /\ tsSet = FALSE
    /\ lastMeasureNumber = 0
    /\ previousChord = None
    /\ kCurrent = Unbound
    /\ copyOf = <<>>
    /\ rtLast = [tok |-> NoToken, count |-> 0,
                 pre |-> [md |-> [title |-> None, alternativeTitle |-> None,
                                  composer |-> None],
                          p |-> <<>>, heap |-> <<>>, tsCurrent |-> None, tsSet |-> FALSE,
                          lastMeasureNumber |-> 0, previousChord |-> None,
                          kCurrent |-> Unbound, copyOf |-> <<>>, raised |-> FALSE]]

\* ---------------------------------------------------------------- scale.py
\* a pitch is <<step, alter, octave>>: the step counts letters from C, the alter
\* semitones of accidental, the octave is None while it is implicit
StepOf(pitchObj) == pitchObj[1]
AlterOf(pitchObj) == pitchObj[2]
OctaveOf(pitchObj) == pitchObj[3]

\* the octave a pitch sounds in while its own is implicit
ImplicitOctave == 4

StepNames == <<"C", "D", "E", "F", "G", "A", "B">>
StepSemitones == <<0, 2, 4, 5, 7, 9, 11>>

SoundingOctave(pitchObj) ==
    IF OctaveOf(pitchObj) = None THEN ImplicitOctave ELSE OctaveOf(pitchObj)[1]

\* Pitch.ps: the pitch space number
PitchSpace(pitchObj) ==
    12 * (SoundingOctave(pitchObj) + 1) + StepSemitones[StepOf(pitchObj) + 1]
        + AlterOf(pitchObj)

RECURSIVE Repeated(_, _)
Repeated(c, n) == IF n <= 0 THEN <<>> ELSE <<c>> \o Repeated(c, n - 1)

\* Pitch.name: the letter and the accidental's modifier, no octave
PitchName(pitchObj) ==
    <<StepNames[StepOf(pitchObj) + 1]>>
        \o (IF AlterOf(pitchObj) >= 0 THEN Repeated("#", AlterOf(pitchObj))
            ELSE Repeated("-", 0 - AlterOf(pitchObj)))

IntervalSemitones(name) == IF name = "M2" THEN 2 ELSE 1

\* a pitch moved up by a second: the next letter, the interval's semitones
TransposeSecond(pitchObj, name) ==
    LET step == (StepOf(pitchObj) + 1) % 7
        octave == SoundingOctave(pitchObj) + (IF StepOf(pitchObj) = 6 THEN 1 ELSE 0)
        ps == PitchSpace(pitchObj) + IntervalSemitones(name)
    IN  <<step, ps - (12 * (octave + 1) + StepSemitones[step + 1]), <<octave>>>>

\* IntervalNetwork.realizePitch(pitchObj, 1): the pitch itself, then one pitch an
\* interval of the network above the one before, up to the octave
RECURSIVE RealizePitch(_, _)
RealizePitch(pitchObj, intervalList) ==
    IF intervalList = <<>> THEN <<pitchObj>>
    ELSE <<pitchObj>> \o RealizePitch(TransposeSecond(pitchObj, Head(intervalList)),
                                      Tail(intervalList))

srcList == <<"M2", "M2", "m2", "M2", "M2", "M2", "m2">>

\* a mode that would keep the intervals of the major scale
RotateNone(list, k) == list

\* list[k:] + list[:k]
Rotate(list, k) == SubSeq(list, k + 1, Len(list)) \o SubSeq(list, 1, k)

\* AbstractDiatonicScale.buildNetwork, for the modes of MajorScale and MinorScale
buildNetwork(scaleMode) ==
    IF scaleMode \in {"aeolian", "minor"}
    THEN [intervalList |-> Rotate(srcList, 5), tonicStep |-> 1, dominantStep |-> 5]
    ELSE [intervalList |-> srcList, tonicStep |-> 1, dominantStep |-> 5]

\* pitch.Pitch(): C, its octave implicit
DefaultPitch == <<0, 0, None>>

\* ConcreteScale.__init__ with a pitch or nothing for the tonic, then the
\* subclass's type and network
DiatonicScale(tonic, type) ==
    [type |-> type, tonic |-> IF tonic = None THEN DefaultPitch ELSE tonic,
     abstract |-> buildNetwork(type)]

MajorScale(tonic) == DiatonicScale(tonic, "major")
MinorScale(tonic) == DiatonicScale(tonic, "minor")

\* ConcreteScale.name
ScaleName(sc) == PitchName(sc.tonic) \o <<" ", sc.type>>

getPitchList(sc) == RealizePitch(sc.tonic, sc.abstract.intervalList)

\* the degrees 1..7 only: any other raises
pitchFromScaleDegree(sc, degree) == getPitchList(sc)[degree]

getRelativeMinor(sc) == MinorScale(pitchFromScaleDegree(sc, 6))
getParallelMinor(sc) == MinorScale(sc.tonic)
getRelativeMajor(sc) == MajorScale(pitchFromScaleDegree(sc, 3))
getParallelMajor(sc) == MajorScale(sc.tonic)

\* the tonics given to a constructor: nothing, or a pitch of any letter, natural,
\* sharp or flat, its octave implicit or given
TonicArgs ==
    {None} \cup {<<s, a, o>> : s \in 0..6, a \in -1..1, o \in {None, <<ImplicitOctave>>}}

CurrentScale == scaleTrail[Len(scaleTrail)].scale

Derive(op, sc) ==
    /\ scaleTrail' = Append(scaleTrail, [op |-> op, scale |-> sc])
    /\ UNCHANGED <<tonicArg, taVars, rtVars>>

NewMajorScale ==
    /\ scaleTrail = <<>>
    /\ Derive("MajorScale", MajorScale(tonicArg))

NewMinorScale ==
    /\ scaleTrail = <<>>
    /\ Derive("MinorScale", MinorScale(tonicArg))

Derivable(type) ==
    /\ scaleTrail # <<>>
    /\ Len(scaleTrail) < MaxScales
    /\ CurrentScale.type = type

CallGetRelativeMinor ==
    /\ Derivable("major")
    /\ Derive("getRelativeMinor", getRelativeMinor(CurrentScale))

CallGetParallelMinor ==
    /\ Derivable("major")
    /\ Derive("getParallelMinor", getParallelMinor(CurrentScale))

CallGetRelativeMajor ==
    /\ Derivable("minor")
    /\ Derive("getRelativeMajor", getRelativeMajor(CurrentScale))

CallGetParallelMajor ==
    /\ Derivable("minor")
    /\ Derive("getParallelMajor", getParallelMajor(CurrentScale))

\* no scale was made
NoScale == tonicArg = None /\ scaleTrail = <<>>

\* ---------------------------------------------------------------- specifications
AnalyzerNew(m, scores) ==
    /\ mode = m
    /\ theoryScore \in scores
    /\ pc = "new"
    /\ verticalSlices = <<>>
    /\ verticalSliceTriplets = <<>>
    /\ vlqCache = <<>>
    /\ tnlsCache = <<>>
    /\ resultDict = <<>>
    /\ colors = [n \in AllNotes |-> "None"]
    /\ nextId = 1
    /\ firstRet = <<>>
    /\ calls = 0
    /\ last = NoCall

InitWith(m, scores) == AnalyzerNew(m, scores) /\ BuilderNew /\ NoScale

Init == InitWith("seq", SeqScores)
InitCall == InitWith("wide", WideScores)

Next ==
    \/ Construct
    \/ CallGetHarmonicIntervals
    \/ CallGetMelodicIntervals
    \/ CallGetVLQs
    \/ CallGetAllPartNumPairs
    \/ CallGetLinearSegments
    \/ CallOutOfRange
    \/ CallColorResults
    \/ CallIdentifyBasedOnVLQ
    \/ CallIdentifyBasedOnHarmonicInterval
    \/ CallIdentifyBasedOnMelodicInterval
    \/ CallIdentifyBasedOnNote
    \/ CallIdentifyBasedOnVerticalSlice
    \/ CallIdentifyBasedOnVerticalSliceTriplet
    \/ CallIdentifyBasedOnThreeNoteLinearSegment

\* sequences of calls on one analyzer
Spec == Init /\ [][Next]_vars

\* one call on a new analyzer, over every score and argument
SpecCall == InitCall /\ [][Next]_vars

InitOut == InitWith("out", SeqScores)

NextOut == Next \/ CallGetResultsString

\* two calls on a new analyzer and then an output method
SpecOut == InitOut /\ [][NextOut]_vars

InitRule == InitWith("rules", RuleScores)

NextRule ==
    \/ Construct
    \/ CallIdentifyBasedOnVLQ
    \/ CallIdentifyBasedOnHarmonicInterval
    \/ CallIdentifyBasedOnMelodicInterval
    \/ CallIdentifyBasedOnNote
    \/ CallIdentifyBasedOnVerticalSlice
    \/ CallIdentifyBasedOnVerticalSliceTriplet
    \/ CallIdentifyBasedOnThreeNoteLinearSegment
    \/ CallIdentifyPairRule
    \/ CallIdentifyPartRule
    \/ CallIdentifyRomanNumerals
    \/ CallIdentifyCommonPracticeErrors

\* one call of an evaluator with a caller's rule that raises or keeps a state,
\* or of a built-in rule, on a new analyzer
SpecRule == InitRule /\ [][NextRule]_vars

InitRT == InitWith("rt", {<<>>})

NextRT ==
    \/ TokenMetadata
    \/ TokenTimeSignature
    \/ TokenMeasure
    \/ ReturnScore

\* romanTextToStreamScore over the tokens of a handler, one token a step
SpecRT == InitRT /\ [][NextRT]_vars

InitScale ==
    /\ AnalyzerNew("scale", {<<>>})
    /\ BuilderNew
    /\ tonicArg \in TonicArgs
    /\ scaleTrail = <<>>

NextScale ==
    \/ NewMajorScale
    \/ NewMinorScale
    \/ CallGetRelativeMinor
    \/ CallGetParallelMinor
    \/ CallGetRelativeMajor
    \/ CallGetParallelMajor

\* a major or minor scale of a tonic, and the scales derived from it
SpecScale == InitScale /\ [][NextScale]_vars

\* ---------------------------------------------------------------- the last call, read back
EvalOps == {"vlq", "hIntv", "mIntv", "note", "vs", "vst", "tnls"}
PairOps == {"vlq", "hIntv"}
IsEval == last.op \in EvalOps

\* the last call named its part numbers (the slice evaluator takes none)
LastConcrete == \A i \in 1..Len(last.args) : last.args[i] # None
LastTarget == Concat(last.args)

LexLess(t, u) == t[1] < u[1] \/ (t[1] = u[1] /\ Len(t) = 2 /\ t[2] < u[2])

RECURSIVE LexSorted(_)
LexSorted(S) ==
    IF S = {} THEN <<>>
    ELSE LET m == CHOOSE t \in S : \A u \in S \ {t} : LexLess(t, u)
         IN  <<m>> \o LexSorted(S \ {m})

\* every valid target of an evaluator, in canonical order
CanonicalTargets(op) ==
    IF op \in PairOps
    THEN LexSorted({<<a, b>> : a \in PartNums, b \in PartNums} \cap
                   {t \in PartNums \X PartNums : t[1] < t[2]})
    ELSE LexSorted({<<a>> : a \in PartNums})

LastTargets == IF LastConcrete THEN <<LastTarget>> ELSE CanonicalTargets(last.op)

\* the sequence an evaluator walks for one target
RawView(op, target) ==
    CASE op = "vlq" -> VlqList(target[1], target[2])
      [] op = "hIntv" -> GetHarmonicIntervals(Self, target[1], target[2]).ret.items
      [] op = "mIntv" -> GetMelodicIntervals(Self, target[1]).ret.items
      [] op = "note" -> GetNotes(Self, target[1]).ret.items
      [] op = "vs" -> verticalSlices
      [] op = "vst" -> verticalSliceTriplets
      [] op = "tnls" -> GetLinearSegments(Self, target[1], 3).ret.items

ElementsOf(op, target) ==
    LET part == PySlice(RawView(op, target), last.startIndex, last.endIndex)
    IN  [i \in 1..Len(part.items) |->
            [target |-> target, idx |-> part.lo + i, raw |-> part.items[i]]]

\* the elements the last call is to evaluate, in target order and view order
LastElements ==
    LET ts == LastTargets
    IN  Concat([n \in 1..Len(ts) |-> ElementsOf(last.op, ts[n])])

Outcome(e) == TestFunction(last.test, Syms(last.op, e.raw, e.target))
Label(e) == TextFunction(Syms(last.op, e.raw, e.target), e.target)

\* the results the last call appended under its key
Added ==
    LET now == resultDict[last.key]
        before == IF last.key \in DOMAIN last.pre THEN Len(last.pre[last.key]) ELSE 0
    IN  SubSeq(now, before + 1, Len(now))

ResultsFor(e) ==
    {n \in 1..Len(Added) : Added[n].target = e.target /\ Added[n].idx = e.idx}

\* ---------------------------------------------------------------- claims
\* C1: a call of an evaluator with a concrete selector appends exactly one
\* result for each element of the view whose outcome is not False and none for
\* an element whose outcome is False, so the number of results the call adds
\* is the number of matching elements.
C1_OneResultPerMatch ==
    (IsEval /\ LastConcrete) =>
        LET els == LastElements
        IN  /\ \A n \in 1..Len(els) :
                  Cardinality(ResultsFor(els[n])) =
                      IF Outcome(els[n]) # PyFalse THEN 1 ELSE 0
            /\ Len(Added) = Cardinality({n \in 1..Len(els) : Outcome(els[n]) # PyFalse})

\* C2: in every evaluator only an outcome that is exactly False suppresses a
\* finding: an element the loop went past without storing a result has the
\* outcome False, so an outcome of 0 or "" still gives a result under the key;
\* and no result is stored for an outcome of False.
C2_OnlyFalseSuppresses ==
    IsEval =>
        LET els == LastElements
            passed(n) == ~last.raised \/ \E m \in (n + 1)..Len(els) : ResultsFor(els[m]) # {}
        IN  \A n \in 1..Len(els) :
                /\ (ResultsFor(els[n]) = {} /\ passed(n)) => Outcome(els[n]) = PyFalse
                /\ ResultsFor(els[n]) # {} => Outcome(els[n]) # PyFalse

\* C2 witness: a call stored a result for an element whose outcome is 0 or "".
C2_Witness ==
    /\ IsEval
    /\ \E n \in 1..Len(LastElements) :
          /\ Outcome(LastElements[n]) \in {PyInt(0), PyEmptyStr}
          /\ ResultsFor(LastElements[n]) # {}

\* C3: every result an evaluator stores has, for every kind of element, the
\* outcome of the test on its element as value and the text function's output
\* for that element and selector as text.
C3_ValueAndText ==
    IsEval =>
        \A n \in 1..Len(Added) :
            \E m \in 1..Len(LastElements) :
                LET e == LastElements[m]
                IN  /\ Added[n].target = e.target
                    /\ Added[n].idx = e.idx
                    /\ Added[n].value = Outcome(e)
                    /\ Added[n].text = Label(e)

\* C4: after a call of an evaluator without its selector on an empty key, the
\* results under the key are in discovery order: those of an earlier target
\* (part numbers ascending, pairs in lexicographic order) come before those of
\* a later one, and those of one target are in the order of its view.
C4_DiscoveryOrder ==
    (IsEval /\ ~LastConcrete /\ (last.key \in DOMAIN last.pre => last.pre[last.key] = <<>>)) =>
        LET rs == resultDict[last.key]
        IN  \A i \in 1..Len(rs) : \A j \in (i + 1)..Len(rs) :
                \/ LexLess(rs[i].target, rs[j].target)
                \/ (rs[i].target = rs[j].target /\ rs[i].idx < rs[j].idx)

\* C4 witness: a pair evaluator called without part numbers stored results of
\* three pairs, two of them of the same pair.
C4_Witness ==
    /\ last.op \in PairOps
    /\ ~LastConcrete
    /\ LET rs == resultDict[last.key]
       IN  /\ Cardinality({rs[i].target : i \in 1..Len(rs)}) = 3
           /\ \E i \in 1..Len(rs) : \E j \in (i + 1)..Len(rs) : rs[i].target = rs[j].target

\* C5: for a score of n parts getAllPartNumPairs returns n(n-1)/2 pairs, each
\* (a, b) with 0 <= a < b < n, in strictly ascending lexicographic order, so
\* none twice.
C5_AllPartNumPairs ==
    last.op = "getAllPartNumPairs" =>
        LET pairs == last.ret.items
        IN  /\ 2 * Len(pairs) = NumParts * (NumParts - 1)
            /\ \A i \in 1..Len(pairs) :
                  /\ Len(pairs[i]) = 2
                  /\ 0 <= pairs[i][1] /\ pairs[i][1] < pairs[i][2] /\ pairs[i][2] < NumParts
            /\ \A i \in 1..Len(pairs) : \A j \in (i + 1)..Len(pairs) :
                  LexLess(pairs[i], pairs[j])

\* C5 witness: the three pairs of a score of three parts were returned.
C5_Witness ==
    /\ last.op = "getAllPartNumPairs"
    /\ NumParts = 3
    /\ last.ret.items = <<<<0, 1>>, <<0, 2>>, <<1, 2>>>>

IsPrefix(s, t) == Len(s) <= Len(t) /\ SubSeq(t, 1, Len(s)) = s

\* C6: the result dictionary only grows: no step removes a key or changes the
\* list under it other than by appending to it, and a call of an evaluator
\* leaves its key in the dictionary whether or not anything matched.
C6_AppendOnly ==
    [][/\ \A k \in DOMAIN resultDict :
             k \in DOMAIN resultDict' /\ IsPrefix(resultDict[k], resultDict'[k])
       /\ (calls' = calls + 1 /\ last'.op \in EvalOps) => last'.key \in DOMAIN resultDict'
      ]_vars

\* C6 witness: a call appended results to a list that held results already.
C6_Witness ==
    /\ IsEval
    /\ last.key \in DOMAIN last.pre
    /\ last.pre[last.key] # <<>>
    /\ Len(resultDict[last.key]) > Len(last.pre[last.key])

\* C7: every call of getVLQs with the same part numbers returns the list
\* object that the first such call returned.
C7_SameCachedList ==
    last.op = "getVLQs" =>
        last.ret.id = firstRet[Signature("getVLQs", last.args)].id

\* C8 as claimed: every call of getHarmonicIntervals or getMelodicIntervals
\* with the same part numbers returns the list object of the first such call.
C8_Memoized ==
    last.op \in {"getHarmonicIntervals", "getMelodicIntervals"} =>
        last.ret.id = firstRet[Signature(last.op, last.args)].id

\* C8 as amended: getHarmonicIntervals and getMelodicIntervals keep no cache:
\* every call builds a new list object, whose entries are those of the list
\* the first call with the same part numbers returned.
C8_RecomputedEqual ==
    last.op \in {"getHarmonicIntervals", "getMelodicIntervals"} =>
        LET first == firstRet[Signature(last.op, last.args)]
        IN  /\ last.ret.id >= last.preId
            /\ last.ret.id < nextId
            /\ last.ret.items = first.items

\* C8 witness: a second call of getHarmonicIntervals with the same part numbers
\* returned a list that is not empty.
C8_Witness ==
    /\ last.op = "getHarmonicIntervals"
    /\ last.ret.id # firstRet[Signature(last.op, last.args)].id
    /\ last.ret.items # <<>>

\* C9: the quartet cache is keyed by the ordered pair: for a # b the keys of
\* (a, b) and (b, a) differ, a call getVLQs(a, b) leaves the entry of (b, a) as
\* it was (absent or the same list), and when both are stored they are two
\* lists, each computed by its own call.
C9_OrderedPairKey ==
    /\ \A a \in PartNums, b \in PartNums :
          a # b =>
              /\ VlqCacheKey(a, b) # VlqCacheKey(b, a)
              /\ (VlqCacheKey(a, b) \in DOMAIN vlqCache /\ VlqCacheKey(b, a) \in DOMAIN vlqCache)
                    => vlqCache[VlqCacheKey(a, b)].id # vlqCache[VlqCacheKey(b, a)].id
    /\ (last.op = "getVLQs" /\ last.args[1] # last.args[2]) =>
          LET other == VlqCacheKey(last.args[2], last.args[1])
          IN  /\ other \in DOMAIN vlqCache <=> other \in DOMAIN last.preVlq
              /\ other \in DOMAIN vlqCache => vlqCache[other] = last.preVlq[other]

\* C9 witness: getVLQs(1, 0) was called with the list of (0, 1) stored, and
\* both pairs now have an entry.
C9_Witness ==
    /\ last.op = "getVLQs"
    /\ last.args = <<1, 0>>
    /\ VlqCacheKey(0, 1) \in DOMAIN last.preVlq
    /\ VlqCacheKey(1, 0) \notin DOMAIN last.preVlq
    /\ VlqCacheKey(1, 0) \in DOMAIN vlqCache

\* C10: the analyzer holds one vertical slice for each distinct onset of the
\* parts, the k-th slice being the one of the k-th onset in time order.
C10_OneSlicePerOnset ==
    pc # "new" =>
        /\ Len(verticalSlices) =
              Cardinality(UNION {{Part(p)[i].offset : i \in 1..Len(Part(p))} : p \in PartNums})
        /\ \A k \in 1..Len(verticalSlices) :
              \A p \in PartNums :
                  GetNote(verticalSlices[k], p) # None =>
                      /\ Part(p)[GetNote(verticalSlices[k], p)[2]].offset <= Chordify[k]
                      /\ k < Len(verticalSlices) =>
                            Part(p)[GetNote(verticalSlices[k], p)[2]].offset < Chordify[k + 1]

\* the index of the last event of part p that starts at or before time t
ActiveAt(p, t) ==
    LET events == Part(p)
    IN  CHOOSE i \in 1..Len(events) :
            /\ events[i].offset <= t
            /\ i < Len(events) => events[i + 1].offset > t

\* C11: every vertical slice the analyzer holds has an entry for each part
\* number 0..numParts-1 and for nothing else; the entry of part p in the slice
\* of onset t is the part's Note that starts last at or before t, and None
\* when the event that starts last at or before t is a Rest.
C11_SliceContents ==
    LET onsets == Chordify
    IN  \A k \in 1..Len(verticalSlices) :
            /\ DOMAIN verticalSlices[k] = 1..NumParts
            /\ \A p \in PartNums :
                  LET i == ActiveAt(p, onsets[k])
                  IN  /\ \E j \in 1..Len(Part(p)) : Part(p)[j].offset <= onsets[k]
                      /\ Part(p)[i].cls = "Note" => GetNote(verticalSlices[k], p) = <<p, i>>
                      /\ Part(p)[i].cls = "Rest" => GetNote(verticalSlices[k], p) = None

\* C11 witness: an analyzer of two parts or more holds a slice in which one
\* part has the Note it has held since an earlier onset and another part has
\* None for its Rest.
C11_Witness ==
    /\ pc = "ready"
    /\ \E k \in 1..Len(verticalSlices) : \E p \in PartNums, q \in PartNums :
          /\ GetNote(verticalSlices[k], p) # None
          /\ Part(p)[GetNote(verticalSlices[k], p)[2]].offset < Chordify[k]
          /\ GetNote(verticalSlices[k], q) = None
          /\ Part(q)[ActiveAt(q, Chordify[k])].cls = "Rest"

\* C12: building the slices never raises: the lookup of a part's event at an
\* onset gives None when the part has no event at or before it, and the
\* analyzer is constructed.
C12_LookupNeverRaises ==
    pc # "raised"

\* C13: getHarmonicIntervals(pA, pB) returns one entry for each vertical slice,
\* in slice order; entry i is the interval from the slice's note of pB to its
\* note of pA when the slice has both, and None exactly when it lacks one.
C13_HarmonicIntervals ==
    last.op = "getHarmonicIntervals" =>
        LET hInvList == last.ret.items
            pA == last.args[1]
            pB == last.args[2]
        IN  /\ Len(hInvList) = Len(verticalSlices)
            /\ \A i \in 1..Len(hInvList) :
                  LET nA == GetNote(verticalSlices[i], pA)
                      nB == GetNote(verticalSlices[i], pB)
                  IN  /\ hInvList[i] = None <=> (nA = None \/ nB = None)
                      /\ hInvList[i] # None => hInvList[i] = <<nB, nA>>

\* C13 witness: getHarmonicIntervals of two different parts returned an
\* interval for one slice and None for another.
C13_Witness ==
    /\ last.op = "getHarmonicIntervals"
    /\ last.args[1] # last.args[2]
    /\ \E i \in 1..Len(last.ret.items) : \E j \in 1..Len(last.ret.items) :
          last.ret.items[i] = None /\ last.ret.items[j] # None

\* C14: getMelodicIntervals(p) follows the Note and Rest events of part p, not
\* the slices: it has one entry less than the part has events, entry i is the
\* interval from event i to event i+1 when both are Notes, and None when one
\* of the two is a Rest.
C14_MelodicIntervals ==
    last.op = "getMelodicIntervals" =>
        LET mInvList == last.ret.items
            noteList == Part(last.args[1])
        IN  /\ Len(noteList) >= 1 => Len(mInvList) = Len(noteList) - 1
            /\ Len(noteList) = 0 => mInvList = <<>>
            /\ \A i \in 1..Len(mInvList) :
                  IF noteList[i].cls = "Note" /\ noteList[i + 1].cls = "Note"
                  THEN mInvList[i] = <<<<last.args[1], i>>, <<last.args[1], i + 1>>>>
                  ELSE mInvList[i] = None

\* C14 witness: getMelodicIntervals of a part with fewer events than the
\* analyzer has slices returned an interval, and of a part that ends with a
\* Rest an interval followed by None.
C14_Witness ==
    /\ last.op = "getMelodicIntervals"
    /\ \/ /\ Len(Part(last.args[1])) < Len(verticalSlices)
          /\ \E i \in 1..Len(last.ret.items) : last.ret.items[i] # None
       \/ /\ Len(last.ret.items) >= 2
          /\ last.ret.items[1] # None
          /\ last.ret.items[Len(last.ret.items)] = None

Window(p, i, len) == [n \in 1..len |-> GetNote(verticalSlices[i + n - 1], p)]

\* C16 as claimed: for every length L >= 1 and numSlices >= L,
\* getLinearSegments(p, L) returns numSlices-L+1 windows, window i holding the
\* notes of part p in slices i .. i+L-1.
C16_EveryLength ==
    (last.op = "getLinearSegments" /\ Len(verticalSlices) >= last.args[2]) =>
        /\ Len(last.ret.items) = Len(verticalSlices) - last.args[2] + 1
        /\ \A i \in 1..Len(last.ret.items) :
              last.ret.items[i] = Window(last.args[1], i, last.args[2])

\* C16 as amended: getLinearSegments(p, L) builds segments for L = 3 only:
\* with L = 3 and numSlices >= 3 it returns numSlices-2 windows, window i
\* holding the notes of part p in slices i, i+1, i+2; with any other L, and
\* with fewer slices than L, it returns an empty list.
C16_LengthThreeOnly ==
    last.op = "getLinearSegments" =>
        IF last.args[2] = 3 /\ Len(verticalSlices) >= 3
        THEN /\ Len(last.ret.items) = Len(verticalSlices) - 2
             /\ \A i \in 1..Len(last.ret.items) :
                   last.ret.items[i] = Window(last.args[1], i, 3)
        ELSE last.ret.items = <<>>

\* C16 witness: getLinearSegments with a length other than 3 and at least
\* that many slices returned an empty list.
C16_Witness ==
    /\ last.op = "getLinearSegments"
    /\ last.args[2] # 3
    /\ Len(verticalSlices) >= last.args[2]
    /\ last.ret.items = <<>>

\* C17: the analyzer holds numSlices-2 vertical slice triplets, none with
\* fewer than three slices, and triplet i is made of the slices i, i+1 and
\* i+2 of its slice list, in that order.
C17_Triplets ==
    pc = "ready" =>
        /\ Len(verticalSlices) >= 3 =>
              Len(verticalSliceTriplets) = Len(verticalSlices) - 2
        /\ Len(verticalSlices) < 3 => verticalSliceTriplets = <<>>
        /\ \A i \in 1..Len(verticalSliceTriplets) :
              verticalSliceTriplets[i] =
                  <<verticalSlices[i], verticalSlices[i + 1], verticalSlices[i + 2]>>

\* C17 witness: an analyzer of four slices, no two of them equal, holds two
\* triplets.
C17_Witness ==
    /\ pc = "ready"
    /\ Len(verticalSlices) = 4
    /\ Cardinality({verticalSlices[k] : k \in 1..4}) = 4
    /\ Len(verticalSliceTriplets) = 2

\* the quartets of a pair that the last call stored a result for
StoredAt(target) == {Added[k].idx : k \in {j \in 1..Len(Added) : Added[j].target = target}}

\* the quartets among those numbered in range whose outcome is not False
FindingsAmong(target, range) ==
    {i \in range : TestFunction(last.test, VlqList(target[1], target[2])[i]) # PyFalse}

\* C18: a call of the quartet evaluator without color evaluates, for each pair
\* it covers, only the first quartet of the pair's list when startIndex = 0
\* and endIndex = 1, and only the last one when startIndex = -1 and endIndex
\* is omitted; for a pair whose list is empty it evaluates nothing, and the
\* call does not raise.
C18_QuartetBounds ==
    (last.op = "vlq" /\ last.color = "None" /\ <<last.startIndex, last.endIndex>> # <<0, None>>) =>
        /\ ~last.raised
        /\ \A n \in 1..Len(LastTargets) :
              LET target == LastTargets[n]
                  len == Len(VlqList(target[1], target[2]))
                  range == IF len = 0 THEN {}
                           ELSE IF last.startIndex = 0 THEN {1} ELSE {len}
              IN  StoredAt(target) = FindingsAmong(target, range)

\* C18 witness: a call with startIndex = -1 and the part numbers omitted stored
\* results for three pairs, each for the last of the pair's three quartets.
C18_Witness ==
    /\ last.op = "vlq"
    /\ last.startIndex = 0 - 1
    /\ ~LastConcrete
    /\ Len(verticalSlices) = 4
    /\ Len(Added) = 3
    /\ \A k \in 1..3 : Added[k].idx = 3

C20_OutOfRangeRaises ==
    last.op = "outOfRange" => last.raised

\* ---------------------------------------------------------------- rules that raise
\* the caller's rule raises on the element: its testFunction does, or its
\* textFunction does once the testFunction has made the element a finding
RaisesAt(e) ==
    \/ Outcome(e) = PyRaise
    \/ Outcome(e) # PyFalse /\ TextRaises(last.test, Syms(last.op, e.raw, e.target))

RaisingTests == {"absentRaises", "labelRaises"}

\* the place in LastElements of the first element the rule raises on, 0 for none
FirstRaise ==
    LET E == LastElements
        bad == {k \in 1..Len(E) : RaisesAt(E[k])}
    IN  IF bad = {} THEN 0 ELSE CHOOSE k \in bad : \A j \in bad : k <= j

\* C21: when the predicate or the labeler of a call raises on element k, the
\* call raises; the results of the elements before k are in the store, after
\* what the key held before; and nothing after k is evaluated, in this target
\* or a later one: the predicate has been applied to the elements up to k only.
C21_ErrorAborts ==
    (IsEval /\ last.test \in RaisingTests) =>
        LET E == LastElements
            k == FirstRaise
            added == Added
            per == IF last.op = "vst" THEN 1 ELSE 2
            before == IF last.key \in DOMAIN last.pre THEN last.pre[last.key] ELSE <<>>
        IN  IF k = 0 THEN ~last.raised
            ELSE /\ last.raised
                 /\ IsPrefix(before, resultDict[last.key])
                 /\ Len(added) = k - 1
                 /\ \A n \in 1..Len(added) :
                        added[n].target = E[n].target /\ added[n].idx = E[n].idx
                 /\ last.applied =
                        (k - 1) * per + (IF Outcome(E[k]) = PyRaise THEN 1 ELSE per)

\* a call over all targets raised after it stored a result, with a target
\* still to come
C21_Witness ==
    /\ IsEval /\ last.test \in RaisingTests /\ ~LastConcrete
    /\ last.raised
    /\ Len(Added) >= 1
    /\ LET E == LastElements IN E[Len(E)].target # E[FirstRaise].target

\* ---------------------------------------------------------------- a predicate with a state
\* C25: a call that does not raise applies the predicate exactly once to each
\* element it walks, and the value stored with a finding is the outcome of that
\* one application: under a predicate that returns the number of times it has
\* been applied, the finding of the n-th element holds n.
C25_AppliedOnce ==
    (IsEval /\ ~last.raised) =>
        /\ last.applied = Len(LastElements)
        /\ (last.test = "counter" /\ last.op \notin {"vlq", "vst"}) =>
               LET added == Added IN \A n \in 1..Len(added) : added[n].value = PyInt(n)

\* ---------------------------------------------------------------- built-in rules on None
\* an element of the last call that is None or holds a None
HoldsNone(e) == AbsentAt(Syms(last.op, e.raw, e.target)) # {}

\* C26: a call of identifyDissonantHarmonicIntervals, identifyHarmonicIntervals,
\* identifyDissonantMelodicIntervals, identifyScaleDegrees or
\* identifyRomanNumerals does not raise, with a color or without, and stores
\* no result for an interval that is None, a note that is None or a slice
\* that holds a None.
C26_GuardedRulesSkipNone ==
    (IsEval /\ last.test \in GuardedRules) =>
        /\ ~last.raised
        /\ LET E == LastElements
               added == Added
           IN  \A n \in 1..Len(E) :
                  HoldsNone(E[n]) =>
                      \A r \in 1..Len(added) :
                          ~(added[r].target = E[n].target /\ added[r].idx = E[n].idx)

\* a guarded rule called with a color walked an element holding None and
\* stored a result for another
C26_Witness ==
    /\ IsEval /\ last.test \in GuardedRules /\ last.color = "red"
    /\ LET E == LastElements IN \E n \in 1..Len(E) : HoldsNone(E[n])
    /\ Len(Added) >= 1

\* ---------------------------------------------------------------- one part number of a pair
\* the last call gave exactly one of partNum1 and partNum2
LastPartial ==
    /\ last.op \in PairOps /\ Len(last.args) = 2
    /\ (last.args[1] = None) # (last.args[2] = None)

\* the analyzer as it was before the last call, which colored nothing
SelfBefore ==
    [rd |-> last.pre, col |-> colors, vlq |-> last.preVlq, tnls |-> tnlsCache,
     nid |-> last.preId, raised |-> FALSE, ret |-> NoRet, applied |-> 0]

\* the last call made again on the analyzer as it was, with both part numbers omitted
BothOmitted ==
    IF last.op = "vlq"
    THEN IdentifyBasedOnVLQ(SelfBefore, None, None, last.color, last.key, last.test,
                            last.startIndex, last.endIndex)
    ELSE IdentifyBasedOnHarmonicInterval(SelfBefore, None, None, last.color, last.key,
                                         last.test)

\* C27: a call of the quartet or the harmonic-interval evaluator that gives
\* only one of partNum1 and partNum2 leaves the store, and raises, exactly as
\* the call with both omitted does: its results are those of every pair of
\* getAllPartNumPairs in order, whether or not the pair holds the given part.
C27_PartialSelectorIsOmitted ==
    (LastPartial /\ last.color = "None" /\ last.op \in EvalOps) =>
        /\ LET both == BothOmitted
           IN  resultDict = both.rd /\ last.raised = both.raised
        /\ (~last.raised /\ last.test = "counter") =>
               Len(Added) = Len(Concat([n \in 1..Len(GetAllPartNumPairs) |->
                                ElementsOf(last.op, GetAllPartNumPairs[n])]))

\* a call given one part number stored a result for a pair without that part
C27_Witness ==
    /\ LastPartial /\ ~last.raised
    /\ LET added == Added
           given == Concat(last.args)[1]
       IN  \E n \in 1..Len(added) : added[n].target[1] # given /\ added[n].target[2] # given

\* ---------------------------------------------------------------- identifyCommonPracticeErrors
IsCommonPractice == last.op = "commonPracticeErrors"

\* the place among the nine rules of the rule that made the result
RuleOf(tr) == CHOOSE i \in DOMAIN CommonPracticeRules : CommonPracticeRules[i] = tr.text[2]

\* C23: the results identifyCommonPracticeErrors appends under its one key
\* come after what the key held, rule by rule in the order parallel fifths,
\* parallel octaves, hidden fifths, hidden octaves, parallel unisons, improper
\* resolutions, leap not set with step, dissonant harmonic intervals,
\* dissonant melodic intervals: no result of a later rule stands before a
\* result of an earlier one.
C23_RuleOrder ==
    IsCommonPractice =>
        /\ IsPrefix(IF last.key \in DOMAIN last.pre THEN last.pre[last.key] ELSE <<>>,
                    resultDict[last.key])
        /\ LET added == Added
               rule == [n \in 1..Len(added) |-> RuleOf(added[n])]
           IN  /\ \A n \in 1..Len(added) : \A m \in n..Len(added) : rule[n] <= rule[m]
               /\ \A n \in 1..Len(added) :
                      added[n].kind = (IF rule[n] <= 7 THEN "vlq"
                                       ELSE IF rule[n] = 8 THEN "hIntv" ELSE "mIntv")

\* one call found parallel fifths, an improper resolution, a dissonant
\* harmonic interval and a dissonant melodic interval
C23_Witness ==
    /\ IsCommonPractice /\ ~last.raised
    /\ LET added == Added
       IN  \A r \in {1, 6, 8, 9} : \E n \in 1..Len(added) : RuleOf(added[n]) = r

\* the melodic intervals of a part that the dissonant-melodic rule finds
DissonantMelodicOf(p) ==
    LET intervals == GetMelodicIntervals(Self, p).ret.items
    IN  {i \in 1..Len(intervals) :
            TestFunction("dissonantMelodicIntervals", Syms("mIntv", intervals[i], <<p>>))
                # PyFalse}

\* C28: identifyCommonPracticeErrors called with a pair of part numbers stores
\* quartet and harmonic-interval results for that pair only, and stores the
\* dissonant melodic intervals of every part of the score, in the pair or not.
C28_MelodicRuleOverAllParts ==
    (IsCommonPractice /\ LastConcrete /\ ~last.raised) =>
        LET added == Added
        IN  /\ \A n \in 1..Len(added) :
                  added[n].kind \in {"vlq", "hIntv"} => added[n].target = LastTarget
            /\ {<<added[n].target[1], added[n].idx>> :
                    n \in {k \in 1..Len(added) : added[k].kind = "mIntv"}}
               = UNION {{<<p, i>> : i \in DissonantMelodicOf(p)} : p \in PartNums}

\* a call with a pair stored a pair result and a melodic result of a part
\* outside the pair
C28_Witness ==
    /\ IsCommonPractice /\ LastConcrete /\ ~last.raised
    /\ LET added == Added
       IN  /\ \E n \in 1..Len(added) : added[n].kind = "vlq"
           /\ \E n \in 1..Len(added) :
                 /\ added[n].kind = "mIntv"
                 /\ added[n].target[1] \notin {LastTarget[1], LastTarget[2]}

\* ---------------------------------------------------------------- getResultsString
IsResultsString == last.op = "getResultsString"

\* the keys of the store that the last call's typeList selects, in map order
SelectedKeys ==
    SelectSeq(last.order,
              LAMBDA k : last.args[1] = None
                         \/ \E i \in 1..Len(last.args[1]) : last.args[1][i] = k)

\* the key's name and the texts of its results in stored order, each on a line
KeyBlock(k) ==
    <<k, ": \n">>
    \o Concat([n \in 1..Len(resultDict[k]) |-> Tail(resultDict[k][n].text) \o <<"\n">>])

\* C22: getResultsString returns, for each key of the store in map iteration
\* order that typeList selects (every key when typeList is None), the key's
\* name and then the text of each of its results in stored order, one per
\* line, and nothing for a key that is not selected; the store is as it was.
C22_ResultsString ==
    IsResultsString =>
        /\ last.out = <<"str">> \o Concat([n \in 1..Len(SelectedKeys) |->
                                              KeyBlock(SelectedKeys[n])])
        /\ resultDict = last.pre
        /\ ~last.raised

\* a store of two keys with results, read with a typeList that selects one
C22_Witness ==
    /\ IsResultsString
    /\ \A k \in {"k1", "k2"} : k \in DOMAIN resultDict /\ Len(resultDict[k]) >= 1
    /\ last.args[1] = <<"k2">>
    /\ Len(last.out) > 3

RECURSIVE ChainRoot(_, _)
ChainRoot(cp, id) == IF cp[id] = 0 THEN id ELSE ChainRoot(cp, cp[id])

HasCopy(cp, id) == \E y \in 1..Len(cp) : cp[y] = id

\* the tie of a chord by its place in its chain of copies
ChainTie(cp, id) ==
    IF cp[id] = 0 THEN (IF HasCopy(cp, id) THEN Tie("start") ELSE None)
    ELSE IF HasCopy(cp, id) THEN Tie("continue") ELSE Tie("stop")

\* the step read one more token
TokenRead == rtLast'.count = rtLast.count + 1

\* the token read is a measure with one number, above lastMeasureNumber, no
\* variant, and a chord came before
IncreasingMeasure ==
    /\ TokenRead
    /\ rtLast'.tok.kind = "measure"
    /\ rtLast'.tok.variantNumber = None
    /\ Len(rtLast'.tok.number) = 1
    /\ rtLast'.tok.number[1] > lastMeasureNumber
    /\ previousChord # None

VariantMeasure ==
    /\ TokenRead
    /\ rtLast'.tok.kind = "measure"
    /\ rtLast'.tok.variantNumber # None

\* the step appended the measures lastMeasureNumber+1 .. n and nothing else; each
\* but the last is a filler holding one chord, a copy of the chord before it with
\* an empty lyric
GapFilled ==
    LET n == rtLast'.tok.number[1]
        base == Len(measures)
        filler(k) == measures'[base + k]
        held(k) == filler(k).elements[1].chord
    IN  /\ rtPc' = "loop"
        /\ Len(measures') = base + (n - lastMeasureNumber)
        /\ SubSeq(measures', 1, base) = measures
        /\ \A k \in 1..(n - lastMeasureNumber) : filler(k).number = lastMeasureNumber + k
        /\ lastMeasureNumber' = n
        /\ \A k \in 1..(n - lastMeasureNumber - 1) :
              /\ Len(filler(k).elements) = 1
              /\ held(k) > Len(chordHeap)
              /\ copyOf'[held(k)] = IF k = 1 THEN previousChord[1] ELSE held(k - 1)
              /\ chordHeap'[held(k)].cls = chordHeap[previousChord[1]].cls
              /\ chordHeap'[held(k)].figure = chordHeap[previousChord[1]].figure
              /\ chordHeap'[held(k)].key = chordHeap[previousChord[1]].key
              /\ chordHeap'[held(k)].lyric = <<"">>

\* the chain of the chord before the token: 'start' on its first chord, 'continue'
\* on every copy that was copied again, 'stop' on the last copy
ChainTied ==
    LET root == ChainRoot(copyOf', previousChord[1])
        chain == {x \in 1..Len(copyOf') : ChainRoot(copyOf', x) = root}
    IN  /\ \A x \in chain : chordHeap'[x].tie = ChainTie(copyOf', x)
        /\ rtLast'.tok.number[1] > lastMeasureNumber + 1 =>
              /\ chordHeap'[root].tie = Tie("start")
              /\ \E x \in chain : chordHeap'[x].tie = Tie("stop")

\* C29: once a chord exists, a non-variant measure token with one number n above
\* lastMeasureNumber appends the measures lastMeasureNumber+1 .. n in ascending
\* order, with no gap; every measure before the last is a filler holding a copy of
\* the previous chord, and the chain of copies is tied 'start' on its first chord,
\* 'continue' on every copy in between and 'stop' on its last copy; a variant
\* measure token appends nothing and leaves every local of the builder as it was.
C29_GapsFilledAndTied ==
    [][/\ IncreasingMeasure => GapFilled /\ ChainTied
       /\ VariantMeasure =>
             UNCHANGED <<rtPc, md, measures, chordHeap, tsCurrent, tsSet,
                         lastMeasureNumber, previousChord, kCurrent, copyOf>>]_vars

\* a token jumped over two numbers: two fillers, and a chain tied 'start',
\* 'continue', 'stop'
C29_Witness ==
    /\ rtPc = "loop"
    /\ rtLast.tok.kind = "measure" /\ rtLast.tok.variantNumber = None
    /\ Len(rtLast.tok.number) = 1
    /\ rtLast.pre.previousChord # None
    /\ rtLast.tok.number[1] = rtLast.pre.lastMeasureNumber + 3
    /\ Len(measures) = Len(rtLast.pre.p) + 3
    /\ \E a, b, c \in 1..Len(chordHeap) :
          /\ copyOf[b] = a /\ copyOf[c] = b
          /\ chordHeap[a].tie = Tie("start")
          /\ chordHeap[b].tie = Tie("continue")
          /\ chordHeap[c].tie = Tie("stop")

\* ---------------------------------------------------------------- relative scales
PitchNames(pitches) == [k \in 1..Len(pitches) |-> PitchName(pitches[k])]

\* the scale made by the i-th operation, and the scale it was made from
Made(i) == scaleTrail[i].scale
Source(i) == scaleTrail[i - 1].scale

\* the i-th operation derived the relative minor and the next one its relative major
RoundTrip(i) ==
    /\ i + 1 <= Len(scaleTrail)
    /\ scaleTrail[i].op = "getRelativeMinor"
    /\ scaleTrail[i + 1].op = "getRelativeMajor"

\* C30: getRelativeMinor of a major scale is the minor scale whose tonic is the
\* major scale's 6th degree, getRelativeMajor of a minor scale is the major scale
\* whose tonic is the minor scale's 3rd degree, and major -> getRelativeMinor ->
\* getRelativeMajor yields a major scale with the name of the first tonic and the
\* pitch names of the first scale.
C30_RelativeScales ==
    \A i \in 2..Len(scaleTrail) :
        /\ scaleTrail[i].op = "getRelativeMinor" =>
              /\ Source(i).type = "major"
              /\ Made(i).type = "minor"
              /\ Made(i).tonic = getPitchList(Source(i))[6]
              /\ Made(i).abstract.intervalList =
                     <<"M2", "m2", "M2", "M2", "m2", "M2", "M2">>
              /\ ScaleName(Made(i)) = PitchName(getPitchList(Source(i))[6]) \o <<" ", "minor">>
        /\ scaleTrail[i].op = "getRelativeMajor" =>
              /\ Source(i).type = "minor"
              /\ Made(i).type = "major"
              /\ Made(i).tonic = getPitchList(Source(i))[3]
              /\ Made(i).abstract.intervalList =
                     <<"M2", "M2", "m2", "M2", "M2", "M2", "m2">>
              /\ ScaleName(Made(i)) = PitchName(getPitchList(Source(i))[3]) \o <<" ", "major">>
        /\ RoundTrip(i) =>
              /\ Made(i + 1).type = "major"
              /\ PitchName(Made(i + 1).tonic) = PitchName(Source(i).tonic)
              /\ ScaleName(Made(i + 1)) = ScaleName(Source(i))
              /\ PitchNames(getPitchList(Made(i + 1))) = PitchNames(getPitchList(Source(i)))

\* the round trip from a major scale of a flat or sharp tonic: the scale it
\* ends at has the first tonic's name an octave higher
C30_Witness ==
    /\ Len(scaleTrail) >= 3
    /\ scaleTrail[1].op = "MajorScale"
    /\ RoundTrip(2)
    /\ AlterOf(Made(1).tonic) # 0
    /\ Made(3).tonic # Made(1).tonic
    /\ PitchName(Made(2).tonic) # PitchName(Made(1).tonic)
====
